---- MODULE Spec2Model ----
(***************************************************************************)
(* Panchangam engine: horizon-crossing solver, boundary projector          *)
(* (inverse Lagrange interpolation), the four element calculators and the  *)
(* Hindu-day period aggregator of backend/app/services.                    *)
(*                                                                         *)
(* Units.  Python floats are modelled as exact numbers:                    *)
(*   - angles are integers counting 1/21 of a degree, so that 6 deg,       *)
(*     12 deg and 360/27 deg are all whole and so is the motion of the     *)
(*     Sun and the Moon in half an hour;                                   *)
(*   - naive datetimes and Julian days are integers counting seconds from  *)
(*     midnight of day 0 (the code truncates datetimes to whole seconds);  *)
(*   - the solver's instants count Tick == 1/1024 s, so every bisection    *)
(*     midpoint of a 180 s or 600 s bracket is whole;                      *)
(*   - interpolation offsets count quarter days (0.25 d == 1).             *)
(* Quotients that are not whole are kept as exact rationals                *)
(* [num |-> signed big integer, den |-> positive integer].                 *)
(***************************************************************************)
EXTENDS Integers, Sequences, FiniteSets, TLC

VARIABLES pc, prov, req, out, scan, lag

vars == <<pc, prov, req, out, scan, lag>>

\* Python's None, and a raised exception, as values
None == [none |-> TRUE]

Raise(e) == [exc |-> e]

Raised(v) == "exc" \in DOMAIN v

\* the value of an expression, computed once and then named: the element of
\* a one-element set
The(S) == CHOOSE x \in S : TRUE

(***************************************************************************)
(* Exact integer arithmetic beyond 32 bits: magnitudes are little-endian   *)
(* sequences of base-100 limbs without leading zero limbs (<<>> is 0); a  *)
(* signed integer is [sg |-> -1 | 0 | 1, mag |-> magnitude].               *)
(***************************************************************************)
Base == 10 * 10

Abs(n) == IF n < 0 THEN -n ELSE n

Sgn(n) == IF n < 0 THEN -1 ELSE IF n = 0 THEN 0 ELSE 1

RECURSIVE MagOfNat(_)
MagOfNat(n) == IF n = 0 THEN <<>> ELSE <<n % Base>> \o MagOfNat(n \div Base)

RECURSIVE MagMulC(_, _, _)
MagMulC(a, k, carry) ==
    IF a = <<>>
    THEN MagOfNat(carry)
    ELSE LET v == Head(a) * k + carry
         IN  <<v % Base>> \o MagMulC(Tail(a), k, v \div Base)

MagMul(a, k) == IF k = 0 THEN <<>> ELSE MagMulC(a, k, 0)

RECURSIVE MagAddC(_, _, _)
MagAddC(a, b, carry) ==
    IF a = <<>> /\ b = <<>>
    THEN MagOfNat(carry)
    ELSE LET x == IF a = <<>> THEN 0 ELSE Head(a)
             y == IF b = <<>> THEN 0 ELSE Head(b)
             v == x + y + carry
         IN  <<v % Base>> \o MagAddC(IF a = <<>> THEN a ELSE Tail(a),
                                     IF b = <<>> THEN b ELSE Tail(b), v \div Base)

MagAdd(a, b) == MagAddC(a, b, 0)

RECURSIVE MagStrip(_)
MagStrip(a) ==
    IF a = <<>> THEN a
    ELSE IF a[Len(a)] = 0 THEN MagStrip(SubSeq(a, 1, Len(a) - 1)) ELSE a

RECURSIVE MagLess(_, _)
MagLess(a, b) ==
    IF Len(a) # Len(b) THEN Len(a) < Len(b)
    ELSE IF a = <<>> THEN FALSE
    ELSE IF a[Len(a)] # b[Len(b)] THEN a[Len(a)] < b[Len(b)]
    ELSE MagLess(SubSeq(a, 1, Len(a) - 1), SubSeq(b, 1, Len(b) - 1))

RECURSIVE MagSubB(_, _, _)
MagSubB(a, b, borrow) ==
    IF a = <<>>
    THEN <<>>
    ELSE LET y == IF b = <<>> THEN 0 ELSE Head(b)
             v == Head(a) - y - borrow
         IN  <<(v + Base) % Base>>
             \o MagSubB(Tail(a), IF b = <<>> THEN b ELSE Tail(b), IF v < 0 THEN 1 ELSE 0)

\* a - b for magnitudes with b <= a
MagSub(a, b) == MagStrip(MagSubB(a, b, 0))

BigOf(n) == [sg |-> Sgn(n), mag |-> MagOfNat(Abs(n))]

BigMul(a, k) ==
    The({IF k = 0 \/ v.sg = 0 THEN BigOf(0)
         ELSE [sg |-> v.sg * Sgn(k), mag |-> MagMul(v.mag, Abs(k))] : v \in {a}})

BigNeg(a) == [sg |-> -a.sg, mag |-> a.mag]

BigAddValues(a, b) ==
    IF a.sg = 0 THEN b
    ELSE IF b.sg = 0 THEN a
    ELSE IF a.sg = b.sg THEN [sg |-> a.sg, mag |-> MagAdd(a.mag, b.mag)]
    ELSE IF a.mag = b.mag THEN BigOf(0)
    ELSE IF MagLess(a.mag, b.mag) THEN [sg |-> b.sg, mag |-> MagSub(b.mag, a.mag)]
    ELSE [sg |-> a.sg, mag |-> MagSub(a.mag, b.mag)]

BigAdd(a, b) == The({BigAddValues(v, w) : v \in {a}, w \in {b}})

BigLeq(a, b) == BigAdd(b, BigNeg(a)).sg >= 0

\* floor(a / d) for a positive integer d, as an ordinary integer: the q in
\* [lo, hi) with d*q <= a < d*(q+1), found by bisection
RECURSIVE BigFloorDivIn(_, _, _, _)
BigFloorDivIn(a, d, lo, hi) ==
    IF hi - lo <= 1 THEN lo
    ELSE LET mid == (lo + hi) \div 2
         IN  IF BigLeq(BigMul(BigOf(d), mid), a)
             THEN BigFloorDivIn(a, d, mid, hi)
             ELSE BigFloorDivIn(a, d, lo, mid)

QuotientRange == 2^23

BigFloorDiv(a, d) == BigFloorDivIn(a, d, -QuotientRange, QuotientRange)

RECURSIVE Gcd(_, _)
Gcd(a, b) == IF b = 0 THEN a ELSE Gcd(b, a % b)

Lcm(a, b) == (a \div Gcd(a, b)) * b

(***************************************************************************)
(* Exact rationals num/den, den > 0.                                       *)
(***************************************************************************)
Rat(n, d) == [num |-> BigOf(n), den |-> d]

RatAdd(p, q) ==
    LET Sum(v, w, l) == [num |-> BigAdd(BigMul(v.num, l \div v.den), BigMul(w.num, l \div w.den)),
                         den |-> l]
    IN  The({Sum(v, w, Lcm(v.den, w.den)) : v \in {p}, w \in {q}})

\* p = n/d for integers n, d with d # 0
RatEqFrac(p, n, d) == BigMul(p.num, d) = BigMul(BigOf(n), p.den)

\* floor(p * k) for a positive integer k
RatFloorTimes(p, k) == The({BigFloorDiv(a, p.den) : a \in {BigMul(p.num, k)}})

(***************************************************************************)
(* Units                                                                   *)
(***************************************************************************)
Deg == 21

Circle == 360 * Deg

Minute == 60

Hour == 60 * Minute

Day == 24 * Hour

QuarterDay == Day \div 4

\* solver instants: ticks of 1/256 s
Tick == 256

DayTicks == Day * Tick

\* the ephemeris grid: the model's provider is asked on whole half hours only
Grid == 30 * Minute

(***************************************************************************)
(* hindu_calendar.py helpers                                               *)
(***************************************************************************)
ZeroDivisionError == Raise("ZeroDivisionError")

\* numer *= (ya - y[j]) for j # i
RECURSIVE Numer(_, _, _, _)
Numer(y, ya, i, j) ==
    IF j > Len(y) THEN BigOf(1)
    ELSE IF j = i THEN Numer(y, ya, i, j + 1)
    ELSE BigMul(Numer(y, ya, i, j + 1), ya - y[j])

\* denom *= (y[i] - y[j]) for j # i
RECURSIVE Denom(_, _, _)
Denom(y, i, j) ==
    IF j > Len(y) THEN 1
    ELSE IF j = i THEN Denom(y, i, j + 1)
    ELSE Denom(y, i, j + 1) * (y[i] - y[j])

\* a term that weights every product with the first abscissa
LagrangeTermFirstX(x, y, ya, i) ==
    LET d == Denom(y, i, 1)
    IN  [num |-> BigMul(BigMul(Numer(y, ya, i, 1), x[1]), Sgn(d)), den |-> Abs(d)]

\* numer * x[i] / denom, as a rational with a positive denominator
LagrangeTerm(x, y, ya, i) ==
    LET d == Denom(y, i, 1)
    IN  [num |-> BigMul(BigMul(Numer(y, ya, i, 1), x[i]), Sgn(d)), den |-> Abs(d)]

RECURSIVE LagrangeSum(_, _, _, _)
LagrangeSum(x, y, ya, i) ==
    IF i > Len(x) THEN Rat(0, 1)
    ELSE RatAdd(LagrangeTerm(x, y, ya, i), LagrangeSum(x, y, ya, i + 1))

\* inverse_lagrange(x, y, ya): the x at which the interpolating polynomial of
\* the points (y[i], x[i]) takes the value ya; a zero denominator raises
inverse_lagrange(x, y, ya) ==
    IF \E i \in 1..Len(x) : Denom(y, i, 1) = 0
    THEN ZeroDivisionError
    ELSE LagrangeSum(x, y, ya, 1)

\* unwrap_angles(angles): result[i] += 360 when result[i] < result[i-1], where
\* result[i-1] is the value already updated by the previous round of the loop
RECURSIVE unwrap_from(_, _)
unwrap_from(result, i) ==
    IF i > Len(result) THEN result
    ELSE IF result[i] < result[i - 1]
         THEN unwrap_from([result EXCEPT ![i] = @ + Circle], i + 1)
         ELSE unwrap_from(result, i + 1)

unwrap_angles(angles) == unwrap_from(angles, 2)

\* math.ceil(n / d) and int(n / d) (truncation toward zero) for d > 0
CeilDiv(n, d) == -((-n) \div d)

\* the offsets the calculators use, in quarter days:
\* [0.25, 0.5, 0.75, 1.0] and [0.0, 0.25, 0.5, 0.75, 1.0]
Offsets4 == <<1, 2, 3, 4>>

Offsets5 == <<0, 1, 2, 3, 4>>

(***************************************************************************)
(* The position provider (Swiss Ephemeris), an input of the request.       *)
(*   prov.epoch                  reference instant, in half hours          *)
(*   prov.moon0, prov.sun0       tropical longitudes at prov.epoch         *)
(*   prov.moonRate, prov.sunRate motion per half hour                      *)
(*   prov.ayan                   ayanamsa                                  *)
(*   prov.stall                  None, or [from, to]: half hours during    *)
(*                               which the reported longitudes stand still *)
(*   prov.down                   the provider raises at every instant      *)
(*   prov.sunReq, prov.sunCity   altitude profile of the Sun at the        *)
(*                               requested coordinates / at the city table *)
(*                               coordinates                               *)
(*   prov.moonReq                altitude profile of the Moon              *)
(*   prov.now                    datetime.now() of the server              *)
(* An altitude profile is [kind |-> "up"], [kind |-> "down"] or            *)
(* [kind |-> "cycle", base, rise, len, period]: the altitude equals base   *)
(* at rise + k*period (going up) and at rise + len + k*period (going       *)
(* down), in seconds.                                                      *)
(***************************************************************************)
ProviderError == Raise("swisseph.Error")

IsNone(v) == "none" \in DOMAIN v

Some(v) == [val |-> v]

Min(a, b) == IF a < b THEN a ELSE b

\* half hours of motion up to half hour g, standstill excluded
Moved(g) ==
    IF IsNone(prov.stall) \/ g <= prov.stall.from THEN g
    ELSE g - (Min(g, prov.stall.to) - prov.stall.from)

\* half hours of motion between the reference instant of the provider and
\* instant t (seconds)
Elapsed(t) == Moved(t \div Grid) - Moved(prov.epoch)

\* swe.calc_ut(jd, swe.MOON)[0][0], swe.calc_ut(jd, swe.SUN)[0][0]
lunar_longitude(t) ==
    IF prov.down THEN ProviderError
    ELSE Some((prov.moon0 + prov.moonRate * Elapsed(t)) % Circle)

solar_longitude(t) ==
    IF prov.down THEN ProviderError
    ELSE Some((prov.sun0 + prov.sunRate * Elapsed(t)) % Circle)

\* swe.get_ayanamsa_ut(jd)
get_ayanamsa_ut(t) == IF prov.down THEN ProviderError ELSE Some(prov.ayan)

\* lunar_phase(jd) = (lunar_longitude - solar_longitude) % 360
lunar_phase(t) ==
    IF prov.down THEN ProviderError
    ELSE Some((lunar_longitude(t).val - solar_longitude(t).val) % Circle)

MaxAltitude == 60000

\* the altitude (millidegrees) the external ephemeris and trigonometry give at
\* instant t (ticks) for a profile
ProfileAltitude(p, t) ==
    IF p.kind = "up" THEN MaxAltitude
    ELSE IF p.kind = "down" THEN -MaxAltitude
    ELSE LET per == p.period * Tick
             len == p.len * Tick
             tau == (t - p.rise * Tick) % per
         IN  IF tau <= len
             THEN p.base + Min(Min(tau, len - tau), MaxAltitude)
             ELSE p.base - Min(Min(tau - len, per - tau), MaxAltitude)

BodyProfile(body, loc) ==
    IF body = "MOON" THEN prov.moonReq
    ELSE IF loc = "city" THEN prov.sunCity ELSE prov.sunReq

\* calculate_body_altitude: every exception is swallowed and answered -90.0
calculate_body_altitude(t, body, loc) ==
    IF prov.down THEN -90000 ELSE ProfileAltitude(BodyProfile(body, loc), t)

(***************************************************************************)
(* astronomical.py: the horizon crossing solver                            *)
(***************************************************************************)
\* a crossing test that takes no sample lying exactly on the threshold
CrossesStrictly(previous_altitude, altitude, target_altitude, is_rising) ==
    IF is_rising
    THEN previous_altitude < target_altitude /\ target_altitude < altitude
    ELSE previous_altitude > target_altitude /\ target_altitude > altitude

\* the crossing test of the coarse scan
Crosses(previous_altitude, altitude, target_altitude, is_rising) ==
    IF is_rising
    THEN previous_altitude <= target_altitude /\ target_altitude < altitude
    ELSE previous_altitude >= target_altitude /\ target_altitude > altitude

\* tolerance = 1.0 / (24 * 60 * 60), max_iterations = 20
Tolerance == Tick

MaxIterations == 20

\* a loop condition without the limit on the iterations
BisectContinuesUncapped(b) == (b.hi - b.lo) > Tolerance

\* (end_jd - start_jd) > tolerance and iterations < max_iterations
BisectContinues(b) == (b.hi - b.lo) > Tolerance /\ b.it < MaxIterations

\* a round that moves the other end of the bracket
BisectStepSwapped(b, altitude, target_altitude, is_rising) ==
    LET mid == (b.lo + b.hi) \div 2
        keepRight == IF is_rising THEN altitude < target_altitude
                                  ELSE altitude > target_altitude
    IN  IF keepRight THEN [lo |-> b.lo, hi |-> mid, it |-> b.it + 1]
                     ELSE [lo |-> mid, hi |-> b.hi, it |-> b.it + 1]

\* one round of the while loop, for the altitude found at mid_jd
BisectStep(b, altitude, target_altitude, is_rising) ==
    LET mid == (b.lo + b.hi) \div 2
        keepRight == IF is_rising THEN altitude < target_altitude
                                  ELSE altitude > target_altitude
    IN  IF keepRight THEN [lo |-> mid, hi |-> b.hi, it |-> b.it + 1]
                     ELSE [lo |-> b.lo, hi |-> mid, it |-> b.it + 1]

BisectResult(b) == (b.lo + b.hi) \div 2

RECURSIVE BisectLoop(_, _, _, _, _)
BisectLoop(b, body, loc, target_altitude, is_rising) ==
    IF BisectContinues(b)
    THEN The({BisectLoop(next, body, loc, target_altitude, is_rising) :
                next \in {BisectStep(b, calculate_body_altitude((b.lo + b.hi) \div 2, body, loc),
                                     target_altitude, is_rising)}})
    ELSE BisectResult(b)

binary_search_crossing(start_jd, end_jd, body, loc, target_altitude, is_rising) ==
    BisectLoop([lo |-> start_jd, hi |-> end_jd, it |-> 0], body, loc,
               target_altitude, is_rising)

\* the coarse scan over samples 0 .. n-1, step ticks apart, and the refinement
\* of the first crossing pair; None when the loop ends without a crossing
find_event(jd_start, body, loc, is_rising, n, step, target_altitude) ==
    LET alt(i) == calculate_body_altitude(jd_start + i * step, body, loc)
        Refine(hits) ==
            IF hits = {} THEN None
            ELSE The({Some(binary_search_crossing(jd_start + (i - 1) * step, jd_start + i * step,
                                                  body, loc, target_altitude, is_rising)) :
                        i \in {k \in hits : \A j \in hits : k <= j}})
    IN  The({Refine(hits) :
               hits \in {{i \in 1..(n - 1) :
                            Crosses(alt(i - 1), alt(i), target_altitude, is_rising)}}})

\* search_duration = 1.0, step_size = 1.0 / (24 * 20), target_altitude = -0.833
SunScanSamples == 480

SunStep == 180 * Tick

SunTarget == -833

\* search_duration = 2.0, step_size = 1.0 / (24 * 6), target_altitude = 0.0
MoonScanSamples == 288

MoonStep == 600 * Tick

MoonTarget == 0

find_sun_event(jd_start, loc, is_sunrise) ==
    find_event(jd_start, "SUN", loc, is_sunrise, SunScanSamples, SunStep, SunTarget)

find_moon_event(jd_start, loc, is_moonrise) ==
    find_event(jd_start, "MOON", loc, is_moonrise, MoonScanSamples, MoonStep, MoonTarget)

\* get_timezone_offset(city, longitude): "Bengaluru" / "bengaluru" -> 5.5 hours
TzBengaluru == 5 * Hour + 30 * Minute

\* a clock string "H:MM AM" / "H:MM PM", with the " (+1)" suffix of a moonset
ClockString(h, m, ap) == [h |-> h, m |-> m, ap |-> ap, plus |-> FALSE]

Text(s) == [text |-> s]

IsClock(s) == "ap" \in DOMAIN s

\* format_jd_to_time(jd): jd is a local instant in ticks
format_jd_to_time(jd) ==
    LET secs    == (jd % DayTicks) \div Tick
        hours   == secs \div Hour
        minutes == (secs % Hour) \div Minute
    IN  IF hours = 0 THEN ClockString(12, minutes, "AM")
        ELSE IF hours < 12 THEN ClockString(hours, minutes, "AM")
        ELSE IF hours = 12 THEN ClockString(12, minutes, "PM")
        ELSE ClockString(hours - 12, minutes, "PM")

\* calculate_sunrise_sunset(date, latitude, longitude, city): date is a day
\* number, loc the coordinates, tz the offset of city
calculate_sunrise_sunset(date, loc, tz) ==
    LET jd_start == date * DayTicks
        Result(sunrise_jd, sunset_jd) ==
            [sunrise |-> IF IsNone(sunrise_jd) THEN Text("No Rise")
                         ELSE format_jd_to_time(sunrise_jd.val + tz * Tick),
             sunset  |-> IF IsNone(sunset_jd) THEN Text("No Set")
                         ELSE format_jd_to_time(sunset_jd.val + tz * Tick),
             sunrise_jd |-> sunrise_jd,
             sunset_jd  |-> sunset_jd]
    IN  The({Result(sunrise_jd, sunset_jd) :
               sunrise_jd \in {find_sun_event(jd_start, loc, TRUE)},
               sunset_jd \in {find_sun_event(jd_start, loc, FALSE)}})

(***************************************************************************)
(* Clock strings and naive datetimes.  A datetime is its number of seconds *)
(* since 00:00:00 of day 0; isoformat() writes it out field by field.      *)
(***************************************************************************)
ValueError == Raise("ValueError")

\* a parser without the branch for 12 AM
ParseClockWithoutMidnight(s) ==
    IF s.plus THEN ValueError
    ELSE [hours   |-> IF s.ap = "PM" /\ s.h # 12 THEN s.h + 12 ELSE s.h,
          minutes |-> s.m]

\* hours, minutes = map(int, time_part.split(":")) with the AM/PM adjustment;
\* int("MM (+1)") raises ValueError
ParseClock(s) ==
    IF s.plus THEN ValueError
    ELSE [hours   |-> IF s.ap = "PM" /\ s.h # 12 THEN s.h + 12
                      ELSE IF s.ap = "AM" /\ s.h = 12 THEN 0
                      ELSE s.h,
          minutes |-> s.m]

isoformat(dt) ==
    [date |-> dt \div Day,
     hh   |-> (dt % Day) \div Hour,
     mm   |-> (dt % Hour) \div Minute,
     ss   |-> dt % Minute]

fromisoformat(s) == s.date * Day + s.hh * Hour + s.mm * Minute + s.ss

\* jd_to_local_datetime_precise(jd, city) for an instant of whole seconds plus
\* a rational number of quarter days: the fields are truncated to the second
jd_to_local_datetime_precise(secs, quarters) ==
    The({secs + RatFloorTimes(q, QuarterDay) : q \in {quarters}})

(***************************************************************************)
(* hindu_calendar.py: the element calculators.  city is always "Bengaluru" *)
(* in the aggregator, so place is the city table's coordinates and         *)
(* tz_offset is 5.5 hours.                                                 *)
(***************************************************************************)
TITHI_NAMES ==
    <<"Pratipada", "Dwitiya", "Tritiya", "Chaturthi", "Panchami",
      "Shashthi", "Saptami", "Ashtami", "Navami", "Dashami",
      "Ekadashi", "Dwadashi", "Trayodashi", "Chaturdashi", "Purnima",
      "Pratipada", "Dwitiya", "Tritiya", "Chaturthi", "Panchami",
      "Shashthi", "Saptami", "Ashtami", "Navami", "Dashami",
      "Ekadashi", "Dwadashi", "Trayodashi", "Chaturdashi", "Amavasya">>

NAKSHATRA_NAMES ==
    <<"Ashwini", "Bharani", "Krittika", "Rohini", "Mrigashira",
      "Ardra", "Punarvasu", "Pushya", "Ashlesha", "Magha",
      "Purva Phalguni", "Uttara Phalguni", "Hasta", "Chitra", "Swati",
      "Vishakha", "Anuradha", "Jyeshtha", "Mula", "Purva Ashadha",
      "Uttara Ashadha", "Shravana", "Dhanishta", "Shatabhisha", "Purva Bhadrapada",
      "Uttara Bhadrapada", "Revati">>

KARANA_NAMES ==
    <<"Bava", "Balava", "Kaulava", "Taitila", "Garija", "Vanija", "Vishti",
      "Shakuni", "Chatushpada", "Naga", "Kimstughno">>

YOGA_NAMES ==
    <<"Vishkambha", "Priti", "Ayushman", "Saubhagya", "Shobhana",
      "Atiganda", "Sukarman", "Dhriti", "Shula", "Ganda",
      "Vriddhi", "Dhruva", "Vyaghata", "Harshana", "Vajra",
      "Siddhi", "Vyatipata", "Variyan", "Parigha", "Shiva",
      "Siddha", "Sadhya", "Shubha", "Shukla", "Brahma",
      "Indra", "Vaidhriti">>

\* 12 degrees, 6 degrees and 360/27 degrees
TithiSpan == 12 * Deg

KaranaSpan == 6 * Deg

NakshatraSpan == Circle \div 27

\* calculate_sunrise_for_panchang(jd, place)[0]: the input instant plus the
\* clock reading of the sunrise found for the UTC calendar date of jd
calculate_sunrise_for_panchang(jd) ==
    LET Clock(sunrise_str) == IF IsClock(sunrise_str) THEN ParseClock(sunrise_str)
                              ELSE [hours |-> 6, minutes |-> 0]
    IN  The({jd + clock.hours * Hour + clock.minutes * Minute :
               clock \in {Clock(calculate_sunrise_sunset(jd \div Day, "city", TzBengaluru).sunrise)}})

\* rise_jd = rise_result[0] - tz_offset / 24
RiseJd(jd) == calculate_sunrise_for_panchang(jd) - TzBengaluru

\* the period a calculator returns, and the one its except branch returns
Period(name, start_dt, end_dt) ==
    [name |-> name, start |-> isoformat(start_dt), end |-> isoformat(end_dt)]

DefaultPeriod(name, hours) == Period(name, prov.now, prov.now + hours * Hour)

\* f"{paksha} {TITHI_NAMES[(today - 1) % 15]}"
TithiName(today) ==
    (IF today <= 15 THEN "Shukla Paksha " ELSE "Krishna Paksha ")
        \o TITHI_NAMES[((today - 1) % 15) + 1]

\* [(lunar_longitude(rise_jd + t) - lunar_longitude(rise_jd)) % 360 for t in offsets]
lunar_long_diff(rise_jd, t) ==
    (lunar_longitude(rise_jd + t * QuarterDay).val - lunar_longitude(rise_jd).val) % Circle

\* [(solar_longitude(rise_jd + t) - solar_longitude(rise_jd)) % 360 for t in offsets]
solar_long_diff(rise_jd, t) ==
    (solar_longitude(rise_jd + t * QuarterDay).val - solar_longitude(rise_jd).val) % Circle

relative_motion(rise_jd) ==
    [i \in 1..4 |-> lunar_long_diff(rise_jd, Offsets4[i]) - solar_long_diff(rise_jd, Offsets4[i])]

total_motion(rise_jd) ==
    [i \in 1..4 |-> lunar_long_diff(rise_jd, Offsets4[i]) + solar_long_diff(rise_jd, Offsets4[i])]

\* today = ceil(moon_phase / 12) at rise_jd
TithiToday(rise_jd) == CeilDiv(lunar_phase(rise_jd).val, TithiSpan)

calculate_tithi(jd) ==
    LET Result(rise_jd, today, prev_approx_end, approx_end) ==
            IF Raised(approx_end) THEN DefaultPeriod("Shukla Paksha Pratipada", 24)
            ELSE Period(TithiName(today),
                        jd_to_local_datetime_precise(rise_jd + TzBengaluru, prev_approx_end),
                        jd_to_local_datetime_precise(rise_jd + TzBengaluru, approx_end))
        Interpolate(rise_jd, moon_phase, today, y) ==
            LET degrees_left      == today * TithiSpan - moon_phase
                prev_today        == ((today - 2) % 30) + 1
                prev_degrees_left == prev_today * TithiSpan - moon_phase
            IN  The({Result(rise_jd, today, prev_approx_end, approx_end) :
                       prev_approx_end \in {inverse_lagrange(Offsets4, y, prev_degrees_left)},
                       approx_end \in {inverse_lagrange(Offsets4, y, degrees_left)}})
        AtSunrise(rise_jd) ==
            The({Interpolate(rise_jd, moon_phase, CeilDiv(moon_phase, TithiSpan), y) :
                   moon_phase \in {lunar_phase(rise_jd).val},
                   y \in {relative_motion(rise_jd)}})
    IN  IF prov.down THEN DefaultPeriod("Shukla Paksha Pratipada", 24)
        ELSE The({AtSunrise(rise_jd) : rise_jd \in {RiseJd(jd)}})

\* isSkipped = (tomorrow - today) % 30 > 1, computed and not returned
TithiIsSkipped(rise_jd) == (TithiToday(rise_jd + Day) - TithiToday(rise_jd)) % 30 > 1

\* [(lunar_longitude(rise_jd + t) - swe.get_ayanamsa_ut(rise_jd + t)) % 360 for t in offsets]
NirayanaMoon(t) == (lunar_longitude(t).val - get_ayanamsa_ut(t).val) % Circle

NirayanaSun(t) == (solar_longitude(t).val - get_ayanamsa_ut(t).val) % Circle

longitudes(rise_jd) == [i \in 1..5 |-> NirayanaMoon(rise_jd + Offsets5[i] * QuarterDay)]

\* nak = ceil(longitudes[0] * 27 / 360); if nak > 27: nak = 1
NakOf(longitude) ==
    LET nak == CeilDiv(longitude, NakshatraSpan)
    IN  IF nak > 27 THEN 1 ELSE nak

calculate_nakshatra(jd) ==
    LET Result(rise_jd, nak, prev_approx_end, approx_end) ==
            IF Raised(approx_end) THEN DefaultPeriod("Ashwini", 24)
            ELSE Period(NAKSHATRA_NAMES[((nak - 1) % 27) + 1],
                        jd_to_local_datetime_precise(rise_jd + TzBengaluru, prev_approx_end),
                        jd_to_local_datetime_precise(rise_jd + TzBengaluru, approx_end))
        Interpolate(rise_jd, nak, y) ==
            LET prev_nak == ((nak - 2) % 27) + 1
            IN  The({Result(rise_jd, nak, prev_approx_end, approx_end) :
                       prev_approx_end \in {inverse_lagrange(Offsets5, y, prev_nak * NakshatraSpan)},
                       approx_end \in {inverse_lagrange(Offsets5, y, nak * NakshatraSpan)}})
        AtSunrise(rise_jd) ==
            The({The({Interpolate(rise_jd, NakOf(long[1]), y) : y \in {unwrap_angles(long)}}) :
                   long \in {longitudes(rise_jd)}})
    IN  IF prov.down THEN DefaultPeriod("Ashwini", 24)
        ELSE The({AtSunrise(rise_jd) : rise_jd \in {RiseJd(jd)}})

\* isSkipped = (nak_tmrw - nak) % 27 > 1 with nak_tmrw = ceil(longitudes[-1] * 27 / 360),
\* printed and not returned
NakshatraIsSkipped(rise_jd) ==
    LET long == longitudes(rise_jd)
    IN  (CeilDiv(long[5], NakshatraSpan) - NakOf(long[1])) % 27 > 1

\* total = (lunar_long + solar_long) % 360 and yog = ceil(total * 27 / 360)
YogaTotal(t) == (NirayanaMoon(t) + NirayanaSun(t)) % Circle

YogOf(total) ==
    LET yog == CeilDiv(total, NakshatraSpan)
    IN  IF yog > 27 THEN 1 ELSE yog

calculate_yoga(jd) ==
    LET Result(rise_jd, yog, prev_approx_end, approx_end) ==
            IF Raised(approx_end) THEN DefaultPeriod("Vishkambha", 24)
            ELSE Period(YOGA_NAMES[((yog - 1) % 27) + 1],
                        jd_to_local_datetime_precise(rise_jd + TzBengaluru, prev_approx_end),
                        jd_to_local_datetime_precise(rise_jd + TzBengaluru, approx_end))
        Interpolate(rise_jd, total, yog, y) ==
            LET degrees_left      == yog * NakshatraSpan - total
                prev_yog          == ((yog - 2) % 27) + 1
                prev_degrees_left == prev_yog * NakshatraSpan - total
            IN  The({Result(rise_jd, yog, prev_approx_end, approx_end) :
                       prev_approx_end \in {inverse_lagrange(Offsets4, y, prev_degrees_left)},
                       approx_end \in {inverse_lagrange(Offsets4, y, degrees_left)}})
        AtSunrise(rise_jd) ==
            The({Interpolate(rise_jd, total, YogOf(total), y) :
                   total \in {YogaTotal(rise_jd)},
                   y \in {total_motion(rise_jd)}})
    IN  IF prov.down THEN DefaultPeriod("Vishkambha", 24)
        ELSE The({AtSunrise(rise_jd) : rise_jd \in {RiseJd(jd)}})

\* isSkipped = (tomorrow - yog) % 27 > 1, printed and not returned
YogaIsSkipped(rise_jd) ==
    (CeilDiv(YogaTotal(rise_jd + Day), NakshatraSpan) - YogOf(YogaTotal(rise_jd))) % 27 > 1

\* a karana number taken by rounding up: a phase on a boundary is counted to
\* the karana that ends there
KaranaNumberByCeil(phase) ==
    LET karana_number == CeilDiv(phase, KaranaSpan)
    IN  IF karana_number > 60 THEN 1 ELSE karana_number

\* a karana number that is not wrapped back to 1 above 60
KaranaNumberUnwrapped(phase) == (phase \div KaranaSpan) + 1

\* karana_number = int(lunar_phase / 6) + 1; if karana_number > 60: 1
KaranaNumber(phase) ==
    LET karana_number == (phase \div KaranaSpan) + 1
    IN  IF karana_number > 60 THEN 1 ELSE karana_number

\* movable karanas cycle through the first 7 names, 57..60 are the fixed ones
KaranaName(karana_number) ==
    LET karana_index == IF karana_number <= 56 THEN (karana_number - 1) % 7
                        ELSE 7 + (karana_number - 57)
    IN  KARANA_NAMES[Min(karana_index, Len(KARANA_NAMES) - 1) + 1]

\* degrees / 13.2 * 24 hours, as a fraction of seconds: 86400 / (13.2 * Deg)
KaranaSecondsNum == 24000

KaranaSecondsDen == 77

calculate_karana(jd) ==
    IF prov.down THEN DefaultPeriod("Bava", 12)
    ELSE
    LET phase         == lunar_phase(jd).val
        karana_number == KaranaNumber(phase)
        since         == phase - (karana_number - 1) * KaranaSpan
        degrees_since_start == IF since < 0 THEN since + Circle ELSE since
        to_end        == karana_number * KaranaSpan - phase
        degrees_to_end == IF to_end <= 0 THEN to_end + Circle ELSE to_end
    IN  Period(KaranaName(karana_number),
               jd - CeilDiv(degrees_since_start * KaranaSecondsNum, KaranaSecondsDen),
               jd + (degrees_to_end * KaranaSecondsNum) \div KaranaSecondsDen)

(***************************************************************************)
(* astronomical.py: calculate_moonrise_moonset.  swe.revjul(...)[2] is the *)
(* day of the month; day 0 is the first day of a month of MonthLength days.*)
(***************************************************************************)
MonthLength == 31

DayOfMonth(date) == (date % MonthLength) + 1

calculate_moonrise_moonset(date, loc, tz) ==
    LET jd_start == date * DayTicks
        Result(moonrise_jd, moonset_jd) ==
            [moonrise |-> IF IsNone(moonrise_jd) THEN Text("No Rise")
                          ELSE format_jd_to_time(moonrise_jd.val + tz * Tick),
             moonset  |-> IF IsNone(moonset_jd) THEN Text("No Set")
                          ELSE LET moonset_local_jd == moonset_jd.val + tz * Tick
                                   clock == format_jd_to_time(moonset_local_jd)
                               IN  IF DayOfMonth(moonset_local_jd \div DayTicks) > DayOfMonth(date)
                                   THEN [clock EXCEPT !.plus = TRUE]
                                   ELSE clock]
    IN  The({Result(moonrise_jd, moonset_jd) :
               moonrise_jd \in {find_moon_event(jd_start, loc, TRUE)},
               moonset_jd \in {find_moon_event(jd_start, loc, FALSE)}})

(***************************************************************************)
(* hindu_calendar.py: calculate_all_periods_for_hindu_day                  *)
(***************************************************************************)
\* a parse that keeps the time of day and drops the date it is given
parse_time_to_datetimeOfDayZero(date_obj, time_str) ==
    The({IF Raised(clock) THEN 6 * Hour + 10 * Minute
         ELSE clock.hours * Hour + clock.minutes * Minute :
           clock \in {IF IsClock(time_str) THEN ParseClock(time_str)
                      ELSE [hours |-> 6, minutes |-> 10]}})

\* parse_time_to_datetime(date_obj, time_str): 6:10 when the string is not a
\* clock string, and when parsing it raises
parse_time_to_datetime(date_obj, time_str) ==
    The({IF Raised(clock) THEN date_obj * Day + 6 * Hour + 10 * Minute
         ELSE date_obj * Day + clock.hours * Hour + clock.minutes * Minute :
           clock \in {IF IsClock(time_str) THEN ParseClock(time_str)
                      ELSE [hours |-> 6, minutes |-> 10]}})

\* period_start < hindu_day_end and period_end > hindu_day_start
periods_overlap_with_hindu_day(period_start_str, period_end_str, hindu_day_start, hindu_day_end) ==
    /\ fromisoformat(period_start_str) < hindu_day_end
    /\ fromisoformat(period_end_str) > hindu_day_start

Range(f) == {f[i] : i \in DOMAIN f}

\* calc_func(test_jd, city) for the calculator named calc_func
Calculate(calc_func, test_jd) ==
    CASE calc_func = "calculate_tithi"     -> calculate_tithi(test_jd)
      [] calc_func = "calculate_nakshatra" -> calculate_nakshatra(test_jd)
      [] calc_func = "calculate_karana"    -> calculate_karana(test_jd)
      [] calc_func = "calculate_yoga"      -> calculate_yoga(test_jd)

\* period_data = calc_func(test_jd, city) for test_jd in jd_range
RECURSIVE CalculateEach(_, _)
CalculateEach(calc_func, jd_range) ==
    IF jd_range = <<>> THEN <<>>
    ELSE <<Calculate(calc_func, Head(jd_range))>> \o CalculateEach(calc_func, Tail(jd_range))

\* a comparison of two isoformat strings that looks at the time of day only
IsoStringLessByClock(a, b) ==
    \/ a.hh < b.hh
    \/ a.hh = b.hh /\ a.mm < b.mm
    \/ a.hh = b.hh /\ a.mm = b.mm /\ a.ss < b.ss

\* x['start'] < y['start'] for two isoformat strings: the strings are compared
\* character by character, that is field by field from the date to the
\* seconds, every field having a fixed width
IsoStringLess(a, b) ==
    \/ a.date < b.date
    \/ a.date = b.date /\ a.hh < b.hh
    \/ a.date = b.date /\ a.hh = b.hh /\ a.mm < b.mm
    \/ a.date = b.date /\ a.hh = b.hh /\ a.mm = b.mm /\ a.ss < b.ss

\* the loop of get_overlapping_periods over the calculated periods, and the
\* sort.  The loop keeps a calculated period when it overlaps the window and
\* its key name_start_end has not been seen, that is, at its first
\* occurrence; then all_periods.sort(key=lambda x: x['start']), a stable
\* sort: a kept period comes after the kept ones whose start string is
\* smaller and after the earlier kept ones with the same start
OverlappingPeriods(period_data, hindu_day_start, hindu_day_end) ==
    LET Sorted(kept) ==
            LET Rank(i) == Cardinality({j \in kept :
                               \/ IsoStringLess(period_data[j].start, period_data[i].start)
                               \/ /\ period_data[j].start = period_data[i].start
                                  /\ j <= i})
            IN  [r \in 1..Cardinality(kept) |-> period_data[CHOOSE i \in kept : Rank(i) = r]]
    IN  The({Sorted(kept) :
               kept \in {{i \in 1..Len(period_data) :
                            /\ periods_overlap_with_hindu_day(period_data[i].start,
                                                              period_data[i].end,
                                                              hindu_day_start, hindu_day_end)
                            /\ \A j \in 1..(i - 1) : period_data[j] # period_data[i]}}})

get_overlapping_periods(calc_func, jd_range, hindu_day_start, hindu_day_end) ==
    The({OverlappingPeriods(period_data, hindu_day_start, hindu_day_end) :
           period_data \in {CalculateEach(calc_func, jd_range)}})

\* jd = get_julian_day_ut(local_to_utc(date, "Bengaluru")) for a date at 00:00
RequestJd(date) == date * Day - TzBengaluru

calculate_all_periods_for_hindu_day(date) ==
    LET jd              == RequestJd(date)
        jd_range        == <<jd - 2 * Day, jd - Day, jd, jd + Day, jd + 2 * Day>>
        jd_range_karana == <<jd - Day, jd, jd + Day>>
        Response(sun, moon, hindu_day_start, hindu_day_end, tithis) ==
            [date            |-> date,
             sunrise         |-> isoformat(hindu_day_start),
             sunset          |-> isoformat(parse_time_to_datetime(date, sun.sunset)),
             moonrise        |-> isoformat(parse_time_to_datetime(date, moon.moonrise)),
             moonset         |-> isoformat(parse_time_to_datetime(date, moon.moonset)),
             sunrise_next    |-> isoformat(hindu_day_end),
             hindu_day_start |-> isoformat(hindu_day_start),
             hindu_day_end   |-> isoformat(hindu_day_end),
             tithis          |-> IF tithis = <<>> THEN <<calculate_tithi(jd)>> ELSE tithis,
             nakshatras      |-> get_overlapping_periods("calculate_nakshatra", jd_range,
                                                         hindu_day_start, hindu_day_end),
             karanas         |-> get_overlapping_periods("calculate_karana", jd_range_karana,
                                                         hindu_day_start, hindu_day_end),
             yogas           |-> get_overlapping_periods("calculate_yoga", jd_range,
                                                         hindu_day_start, hindu_day_end)]
        Window(sun, moon, hindu_day_start, hindu_day_end) ==
            The({Response(sun, moon, hindu_day_start, hindu_day_end, tithis) :
                   tithis \in {get_overlapping_periods("calculate_tithi", jd_range,
                                                       hindu_day_start, hindu_day_end)}})
        Times(sun, sun_next, moon) ==
            The({Window(sun, moon, hindu_day_start, hindu_day_end) :
                   hindu_day_start \in {parse_time_to_datetime(date, sun.sunrise)},
                   hindu_day_end \in {parse_time_to_datetime(date + 1, sun_next.sunrise)}})
    IN  The({Times(sun, sun_next, moon) :
               sun \in {calculate_sunrise_sunset(date, "req", TzBengaluru)},
               sun_next \in {calculate_sunrise_sunset(date + 1, "req", TzBengaluru)},
               moon \in {calculate_moonrise_moonset(date, "req", TzBengaluru)}})

\* routers/panchangam.py: the /periods endpoint for a request that passes
\* validation; it forwards what the aggregator returned
calculate_panchangam_periods(request) == calculate_all_periods_for_hindu_day(request.date)

(***************************************************************************)
(* Spec: one request against one provider.  Init chooses the provider and  *)
(* the request; each behaviour then performs one operation of the service. *)
(***************************************************************************)
\* the Sun at the city table's coordinates of Bengaluru: the altitude passes
\* -0.833 degrees upwards at 00:30 UTC (6:00 AM local) and downwards 12 hours
\* later
CitySun == [kind |-> "cycle", base |-> SunTarget, rise |-> 30 * Minute,
            len |-> 12 * Hour, period |-> Day]

\* the Sun at the requested coordinates: the same meridian, meridians to the
\* west and to the east, a rise off the scan samples, polar night, polar day
SunProfiles ==
    {CitySun,
     [CitySun EXCEPT !.rise = 11 * Hour],
     [CitySun EXCEPT !.rise = 20 * Hour],
     [CitySun EXCEPT !.rise = Hour + 17 * Minute + 23, !.len = 10 * Hour],
     [kind |-> "down"],
     [kind |-> "up"]}

\* the Moon: a lunar day of 24 h 50 min
MoonProfiles ==
    {[kind |-> "cycle", base |-> MoonTarget, rise |-> r, len |-> 12 * Hour + 25 * Minute,
      period |-> Day + 50 * Minute] : r \in {3 * Hour, 9 * Hour + 7 * Minute}}

Dates == {4, 30}

\* the instant the longitudes moon0, sun0 refer to, in half hours: the
\* reference instant of the calculators called for the requested date
Epoch(date) == (RequestJd(date) + 30 * Minute) \div Grid

\* a standstill of the reported longitudes from 12 to 18 hours after the
\* reference instant of the calculators for the requested date
Standstill(date) == [from |-> Epoch(date) + 24, to |-> Epoch(date) + 36]

MoonLongitudes == {0, 1, 5 * Deg, 12 * Deg - 1, 12 * Deg, 100 * Deg + 3, 348 * Deg + 7, Circle - 2}

Ephemerides ==
    [moon0 : MoonLongitudes, moonRate : 5..7, sun0 : {0, 200 * Deg + 10}, sunRate : 0..1]

BaseProvider(date) ==
    [moon0 |-> 100 * Deg + 3, moonRate |-> 6, sun0 |-> 0, sunRate |-> 1,
     ayan |-> 24 * Deg, epoch |-> Epoch(date), stall |-> None, down |-> FALSE,
     sunReq |-> CitySun, sunCity |-> CitySun,
     moonReq |-> CHOOSE m \in MoonProfiles : m.rise = 3 * Hour,
     now |-> date * Day + 9 * Hour]

Providers(date) ==
    LET base == BaseProvider(date)
    IN  {[base EXCEPT !.moon0 = e.moon0, !.moonRate = e.moonRate,
                      !.sun0 = e.sun0, !.sunRate = e.sunRate] : e \in Ephemerides}
        \cup {[base EXCEPT !.sunReq = s, !.moonReq = m, !.moon0 = m0] :
                  s \in SunProfiles, m \in MoonProfiles, m0 \in {1, 100 * Deg + 3}}
        \cup {[base EXCEPT !.down = TRUE, !.now = n] :
                  n \in {date * Day + 9 * Hour, (date + 40) * Day + 9 * Hour}}
        \cup {[base EXCEPT !.stall = Standstill(date), !.moon0 = m0, !.moonRate = mr] :
                  m0 \in MoonLongitudes, mr \in 5..7}

Init ==
    /\ pc = "ready"
    /\ \E date \in Dates :
         /\ req = [date |-> date]
         /\ prov \in Providers(date)
    /\ out = None
    /\ scan = None
    /\ lag = None

Done(op, res) ==
    /\ pc = "ready"
    /\ pc' = "done"
    /\ out' = [op |-> op, res |-> res]
    /\ UNCHANGED <<prov, req, scan, lag>>

\* POST /periods
Periods == Done("periods", calculate_panchangam_periods(req))

\* the sunrise and sunset of the requested date and of the next date
SunriseSunset ==
    Done("sun", [today |-> calculate_sunrise_sunset(req.date, "req", TzBengaluru),
                 next  |-> calculate_sunrise_sunset(req.date + 1, "req", TzBengaluru)])

\* the element calculators, called for local midnight of the requested date
Tithi == Done("tithi", calculate_tithi(RequestJd(req.date)))

Nakshatra == Done("nakshatra", calculate_nakshatra(RequestJd(req.date)))

Karana == Done("karana", calculate_karana(RequestJd(req.date)))

Yoga == Done("yoga", calculate_yoga(RequestJd(req.date)))

Next == Periods \/ SunriseSunset \/ Tithi \/ Nakshatra \/ Karana \/ Yoga

Spec == Init /\ [][Next]_vars

(***************************************************************************)
(* Properties of the request pipeline                                      *)
(***************************************************************************)
Returned(op) == pc = "done" /\ out.op = op

\* the reference instant the calculators use for the requested date
ReferenceJd == RiseJd(RequestJd(req.date))

\* the half-hour instants (UTC) inside the Hindu-day window a response reports
WindowInstants(res) ==
    LET first == fromisoformat(res.hindu_day_start) - TzBengaluru
        last  == fromisoformat(res.hindu_day_end) - TzBengaluru - 1
    IN  {g * Grid : g \in CeilDiv(first, Grid)..(last \div Grid)}

Names(periods) == {periods[i].name : i \in DOMAIN periods}

NakshatraNameAt(t) == NAKSHATRA_NAMES[((NakOf(NirayanaMoon(t)) - 1) % 27) + 1]

YogaNameAt(t) == YOGA_NAMES[((YogOf(YogaTotal(t)) - 1) % 27) + 1]

KaranaNameAt(t) == KaranaName(KaranaNumber(lunar_phase(t).val))

\* C1: completeness of the aggregator.  While the provider answers, the
\* element in force at any instant of the Hindu-day window is named by an
\* entry of its category's list in the response, for each of the four
\* categories.
C1_AggregatorComplete ==
    (Returned("periods") /\ ~prov.down) =>
        \A t \in WindowInstants(out.res) :
            /\ TithiName(TithiToday(t)) \in Names(out.res.tithis)
            /\ NakshatraNameAt(t) \in Names(out.res.nakshatras)
            /\ KaranaNameAt(t) \in Names(out.res.karanas)
            /\ YogaNameAt(t) \in Names(out.res.yogas)

Overlaps(p, res) ==
    /\ fromisoformat(p.start) < fromisoformat(res.hindu_day_end)
    /\ fromisoformat(p.end) > fromisoformat(res.hindu_day_start)

\* C2: soundness of the aggregator.  While the provider answers, every entry
\* of the tithis, nakshatras, karanas and yogas lists starts before the end of
\* the Hindu-day window and ends after its start, also when the tithi list
\* would otherwise be empty.
C2_AggregatorSound ==
    (Returned("periods") /\ ~prov.down) =>
        \A p \in Range(out.res.tithis) \cup Range(out.res.nakshatras)
                 \cup Range(out.res.karanas) \cup Range(out.res.yogas) :
            Overlaps(p, out.res)

\* the element index a calculator finds for the requested date
ElementIndex(op) ==
    CASE op = "tithi"     -> TithiToday(ReferenceJd)
      [] op = "nakshatra" -> NakOf(NirayanaMoon(ReferenceJd))
      [] op = "yoga"      -> YogOf(YogaTotal(ReferenceJd))
      [] op = "karana"    -> KaranaNumber(lunar_phase(RequestJd(req.date)).val)

\* C3: every period the four element calculators return for an element index
\* of 1 or more starts strictly before it ends, index 1 included.
C3_StartBeforeEnd ==
    (/\ pc = "done"
     /\ out.op \in {"tithi", "nakshatra", "yoga", "karana"}
     /\ ~prov.down
     /\ ElementIndex(out.op) >= 1) =>
        fromisoformat(out.res.start) < fromisoformat(out.res.end)

\* C4: where the Sun rises and sets every day, the sunrise found for the date
\* is before the sunset found for the date, which is before the sunrise found
\* for the next date, whatever the meridian of the observer.
C4_RiseSetNextRise ==
    (Returned("sun") /\ ~prov.down /\ prov.sunReq.kind = "cycle") =>
        /\ ~IsNone(out.res.today.sunrise_jd)
        /\ ~IsNone(out.res.today.sunset_jd)
        /\ ~IsNone(out.res.next.sunrise_jd)
        /\ out.res.today.sunrise_jd.val < out.res.today.sunset_jd.val
        /\ out.res.today.sunset_jd.val < out.res.next.sunrise_jd.val

\* C6: when the solver finds no sunrise for the requested date or for the next
\* date, the aggregator's result reports no Hindu-day window.
C6_NoSunriseNoWindow ==
    (/\ Returned("periods")
     /\ \/ IsNone(find_sun_event(req.date * DayTicks, "req", TRUE))
        \/ IsNone(find_sun_event((req.date + 1) * DayTicks, "req", TRUE))) =>
        /\ "hindu_day_start" \notin DOMAIN out.res
        /\ "hindu_day_end" \notin DOMAIN out.res

\* C7: when the position provider fails, every operation of the pipeline ends
\* with the failure and returns no value in its place.
C7_ProviderFailurePropagates ==
    (pc = "done" /\ prov.down) => Raised(out.res)

\* isSkipped as the tithi, nakshatra and yoga calculators compute it: the
\* index one day after the reference instant is more than one step past the
\* index at the reference instant
SkipDetected(op) ==
    CASE op = "tithi"     -> TithiIsSkipped(ReferenceJd)
      [] op = "nakshatra" -> NakshatraIsSkipped(ReferenceJd)
      [] op = "yoga"      -> YogaIsSkipped(ReferenceJd)
      [] OTHER            -> FALSE

\* C8: a calculator that finds the index one day later more than one step
\* ahead returns a result that carries the skip flag.
C8_SkipFlagAttached ==
    (pc = "done" /\ ~prov.down /\ SkipDetected(out.op)) =>
        /\ "isSkipped" \in DOMAIN out.res
        /\ out.res.isSkipped

\* two of the samples handed to inverse_lagrange are equal
EqualSamples(y) == \E i, j \in DOMAIN y : i # j /\ y[i] = y[j]

\* C9: when two interpolation samples are equal, the tithi, nakshatra and yoga
\* calculators still return the element in force at the reference instant
\* with a period derived from the samples, not the result of their failure
\* branch.
C9_DegenerateSamplesFallBack ==
    /\ (Returned("tithi") /\ ~prov.down /\ EqualSamples(relative_motion(ReferenceJd))) =>
           /\ out.res.name = TithiName(TithiToday(ReferenceJd))
           /\ out.res # DefaultPeriod("Shukla Paksha Pratipada", 24)
    /\ (Returned("nakshatra") /\ ~prov.down
            /\ EqualSamples(unwrap_angles(longitudes(ReferenceJd)))) =>
           /\ out.res.name = NakshatraNameAt(ReferenceJd)
           /\ out.res # DefaultPeriod("Ashwini", 24)
    /\ (Returned("yoga") /\ ~prov.down /\ EqualSamples(total_motion(ReferenceJd))) =>
           /\ out.res.name = YogaNameAt(ReferenceJd)
           /\ out.res # DefaultPeriod("Vishkambha", 24)

(***************************************************************************)
(* SpecSolver: find_sun_event and find_moon_event, one loop round at a     *)
(* time.  scan holds the locals of the running call; scan.pair remembers   *)
(* the loop index at which the refinement was entered.                     *)
(***************************************************************************)
ScanSamples(body) == IF body = "SUN" THEN SunScanSamples ELSE MoonScanSamples

ScanStepSize(body) == IF body = "SUN" THEN SunStep ELSE MoonStep

ScanTarget(body) == IF body = "SUN" THEN SunTarget ELSE MoonTarget

InitSolver ==
    /\ pc = "solver"
    /\ \E date \in Dates, body \in {"SUN", "MOON"}, is_rising \in BOOLEAN :
         /\ req = [date |-> date]
         /\ prov \in IF body = "SUN"
                     THEN {[BaseProvider(date) EXCEPT !.sunReq = s, !.down = d] :
                               s \in SunProfiles, d \in BOOLEAN}
                     ELSE {[BaseProvider(date) EXCEPT !.moonReq = m] : m \in MoonProfiles}
         /\ scan = [body |-> body, is_rising |-> is_rising, jd_start |-> date * DayTicks,
                    i |-> 0, previous_altitude |-> None, previous_jd |-> None,
                    stage |-> "scan", b |-> None, pair |-> 0, result |-> None]
    /\ out = None
    /\ lag = None

\* one round of the for loop: the early return into binary_search_crossing,
\* or the update of previous_altitude and previous_jd
ScanStep ==
    /\ pc = "solver" /\ scan.stage = "scan"
    /\ scan.i < ScanSamples(scan.body)
    /\ LET jd       == scan.jd_start + scan.i * ScanStepSize(scan.body)
           altitude == calculate_body_altitude(jd, scan.body, "req")
       IN  IF /\ ~IsNone(scan.previous_altitude)
              /\ Crosses(scan.previous_altitude.val, altitude,
                         ScanTarget(scan.body), scan.is_rising)
           THEN scan' = [scan EXCEPT !.stage = "bisect", !.pair = scan.i,
                                     !.b = [lo |-> scan.previous_jd.val, hi |-> jd, it |-> 0]]
           ELSE scan' = [scan EXCEPT !.previous_altitude = Some(altitude),
                                     !.previous_jd = Some(jd), !.i = scan.i + 1]
    /\ UNCHANGED <<pc, prov, req, out, lag>>

\* the loop ends without a crossing: return None
ScanExhausted ==
    /\ pc = "solver" /\ scan.stage = "scan"
    /\ scan.i >= ScanSamples(scan.body)
    /\ scan' = [scan EXCEPT !.stage = "done", !.result = None]
    /\ pc' = "done"
    /\ UNCHANGED <<prov, req, out, lag>>

\* one round of the while loop of binary_search_crossing
BisectRound ==
    /\ pc = "solver" /\ scan.stage = "bisect"
    /\ BisectContinues(scan.b)
    /\ scan' = [scan EXCEPT !.b =
           BisectStep(scan.b,
                      calculate_body_altitude((scan.b.lo + scan.b.hi) \div 2, scan.body, "req"),
                      ScanTarget(scan.body), scan.is_rising)]
    /\ UNCHANGED <<pc, prov, req, out, lag>>

\* return (start_jd + end_jd) / 2
BisectReturn ==
    /\ pc = "solver" /\ scan.stage = "bisect"
    /\ ~BisectContinues(scan.b)
    /\ scan' = [scan EXCEPT !.stage = "done", !.result = Some(BisectResult(scan.b))]
    /\ pc' = "done"
    /\ UNCHANGED <<prov, req, out, lag>>

NextSolver == ScanStep \/ ScanExhausted \/ BisectRound \/ BisectReturn

SpecSolver == InitSolver /\ [][NextSolver]_vars

\* the loop indices i whose samples i - 1 and i satisfy the crossing condition
CrossingPairs ==
    LET target == ScanTarget(scan.body)
        alt(i) == calculate_body_altitude(scan.jd_start + i * ScanStepSize(scan.body),
                                          scan.body, "req")
    IN  {i \in 1..(ScanSamples(scan.body) - 1) :
            IF scan.is_rising THEN alt(i - 1) <= target /\ target < alt(i)
                              ELSE alt(i - 1) >= target /\ target > alt(i)}

\* C5: a finished search returned None exactly when no adjacent pair of scan
\* samples satisfies the crossing condition; otherwise it refined the first
\* such pair and its result lies between the two samples of that pair.
C5_FirstCrossingRefined ==
    (pc = "done" /\ scan.stage = "done") =>
        LET pairs == CrossingPairs
        IN  /\ IsNone(scan.result) <=> pairs = {}
            /\ pairs # {} =>
                   /\ \A i \in pairs : scan.pair <= i
                   /\ scan.pair \in pairs
                   /\ scan.result.val >= scan.jd_start + (scan.pair - 1) * ScanStepSize(scan.body)
                   /\ scan.result.val <= scan.jd_start + scan.pair * ScanStepSize(scan.body)

\* a setting of the Moon was found and refined after the scan had passed
\* samples without a crossing
C5_Witness ==
    /\ pc = "done" /\ scan.stage = "done"
    /\ scan.body = "MOON" /\ ~scan.is_rising
    /\ ~IsNone(scan.result) /\ scan.pair > 1

\* the stepwise search and the operator the pipeline uses give the same result
SolverAgrees ==
    (pc = "done" /\ scan.stage = "done") =>
        scan.result = find_event(scan.jd_start, scan.body, "req", scan.is_rising,
                                 ScanSamples(scan.body), ScanStepSize(scan.body),
                                 ScanTarget(scan.body))

(***************************************************************************)
(* SpecLagrange: inverse_lagrange applied to samples of a linear function. *)
(***************************************************************************)
LagMaxY0 == 3

LagMaxRate == 3

LagMaxTarget == 12

LinearSamples(x, y0, r) == [i \in 1..Len(x) |-> y0 + r * x[i]]

InitLagrange ==
    /\ pc = "lagrange"
    /\ \E x \in {Offsets4, Offsets5}, y0 \in -LagMaxY0..LagMaxY0,
          r \in (-LagMaxRate..LagMaxRate) \ {0}, ya \in -LagMaxTarget..LagMaxTarget :
          lag = [x |-> x, y0 |-> y0, r |-> r, y |-> LinearSamples(x, y0, r),
                 ya |-> ya, res |-> None]
    /\ prov = None /\ req = None /\ out = None /\ scan = None

ApplyLagrange ==
    /\ pc = "lagrange"
    /\ lag' = [lag EXCEPT !.res = inverse_lagrange(lag.x, lag.y, lag.ya)]
    /\ pc' = "done"
    /\ UNCHANGED <<prov, req, out, scan>>

NextLagrange == ApplyLagrange

SpecLagrange == InitLagrange /\ [][NextLagrange]_vars

\* C10: for samples y_i = y0 + r*x_i of a linear function with r # 0,
\* inverse_lagrange(x, y, ya) is exactly (ya - y0)/r, for the 4-point and the
\* 5-point offsets and every target ya.
C10_LagrangeExactOnLinear ==
    (pc = "done" /\ lag # None) =>
        /\ lag.res # ZeroDivisionError
        /\ RatEqFrac(lag.res, lag.ya - lag.y0, lag.r)

\* a 5-point interpolation of a decreasing line, target outside the samples
C10_Witness ==
    /\ pc = "done" /\ lag # None
    /\ lag.x = Offsets5 /\ lag.r < 0 /\ lag.ya > lag.y0
    /\ lag.res # ZeroDivisionError

(***************************************************************************)
(* SpecUnwrap: unwrap_angles applied to sequences of angles in [0, 360).   *)
(* req holds the arguments of the call and out its result.                 *)
(***************************************************************************)
UnwrapMaxLen == 4

\* angles in [0, 360): low, middle and high values, in units of 1/Deg degree
SampleAngles == {0, 10 * Deg, 200 * Deg, 350 * Deg, Circle - 1}

AngleLists == UNION {[1..n -> SampleAngles] : n \in 1..UnwrapMaxLen}

InitUnwrap ==
    /\ pc = "unwrap"
    /\ \E angles \in AngleLists : req = [angles |-> angles]
    /\ out = None /\ prov = None /\ scan = None /\ lag = None

ApplyUnwrap ==
    /\ pc = "unwrap"
    /\ out' = [op |-> "unwrap_angles", res |-> unwrap_angles(req.angles)]
    /\ pc' = "done"
    /\ UNCHANGED <<prov, req, scan, lag>>

NextUnwrap == ApplyUnwrap

SpecUnwrap == InitUnwrap /\ [][NextUnwrap]_vars

NonDecreasing(seq) == \A i \in 2..Len(seq) : seq[i - 1] <= seq[i]

\* 360 added to sample[i] and to all later samples each time
\* sample[i] < sample[i-1]
AddedFromEachWrap(angles) ==
    [i \in 1..Len(angles) |->
        angles[i] + Circle * Cardinality({k \in 2..i : angles[k] < angles[k - 1]})]

\* C11: for every sequence of angles in [0, 360), also one that wraps more
\* than once, unwrap_angles returns a non-decreasing sequence, the one that
\* results from adding 360 to sample[i] and all later samples each time
\* sample[i] < sample[i-1].
C11_UnwrapNonDecreasing ==
    (pc = "done" /\ out.op = "unwrap_angles") =>
        /\ NonDecreasing(out.res)
        /\ out.res = AddedFromEachWrap(req.angles)

(***************************************************************************)
(* Boundary projection of the tithi, nakshatra and yoga calculators        *)
(***************************************************************************)
\* the samples a calculator hands to inverse_lagrange
SamplesOf(op, rise_jd) ==
    CASE op = "tithi"     -> relative_motion(rise_jd)
      [] op = "nakshatra" -> unwrap_angles(longitudes(rise_jd))
      [] op = "yoga"      -> total_motion(rise_jd)

\* the angle of the element at the reference instant, the zero of the scale
\* of the samples, and the width of one element
AngleOrigin(op, rise_jd) ==
    CASE op = "tithi"     -> lunar_phase(rise_jd).val
      [] op = "nakshatra" -> 0
      [] op = "yoga"      -> YogaTotal(rise_jd)

StepOf(op) == IF op = "tithi" THEN TithiSpan ELSE NakshatraSpan

\* the local time at which the interpolated angle reaches target_angle
ProjectedTime(op, rise_jd, target_angle) ==
    isoformat(jd_to_local_datetime_precise(
        rise_jd + TzBengaluru,
        inverse_lagrange(IF op = "nakshatra" THEN Offsets5 ELSE Offsets4,
                         SamplesOf(op, rise_jd),
                         target_angle - AngleOrigin(op, rise_jd))))

\* C12: with c the 0-based index of the element at the reference instant,
\* the period returned by calculate_tithi, calculate_nakshatra and
\* calculate_yoga ends where the interpolated angle reaches (c+1)*step and
\* starts where it reaches c*step, for c = 0 as for c >= 1.
C12_BoundaryTargets ==
    (/\ pc = "done" /\ out.op \in {"tithi", "nakshatra", "yoga"}
     /\ ~prov.down) =>
        \A rise_jd \in {ReferenceJd} :
            LET c == ElementIndex(out.op) - 1
            IN  (c >= 0 /\ ~EqualSamples(SamplesOf(out.op, rise_jd))) =>
                    /\ out.res.end = ProjectedTime(out.op, rise_jd, (c + 1) * StepOf(out.op))
                    /\ out.res.start = ProjectedTime(out.op, rise_jd, c * StepOf(out.op))

(***************************************************************************)
(* SpecKarana: the karana number and name calculate_karana derives from a  *)
(* lunar phase; req holds the phase, out the number and the name.          *)
(***************************************************************************)
\* (moon_long - sun_long) % 360 in floating point lies in [0, 360]
LunarPhases == 0..Circle

InitKarana ==
    /\ pc = "karana"
    /\ \E phase \in LunarPhases : req = [lunar_phase |-> phase]
    /\ out = None /\ prov = None /\ scan = None /\ lag = None

ApplyKarana ==
    /\ pc = "karana"
    /\ out' = [op |-> "karana_name",
               res |-> [karana_number |-> KaranaNumber(req.lunar_phase),
                        karana_name   |-> KaranaName(KaranaNumber(req.lunar_phase))]]
    /\ pc' = "done"
    /\ UNCHANGED <<prov, req, scan, lag>>

NextKarana == ApplyKarana

SpecKarana == InitKarana /\ [][NextKarana]_vars

\* C13: for every lunar phase in [0, 360] the karana number lies in 1..60;
\* numbers 1..56 are named by position (n-1) mod 7 of the seven movable
\* names and numbers 57..60 by positions 7..10, the four fixed names, of the
\* 11-entry table.
C13_KaranaNumberAndName ==
    (pc = "done" /\ out.op = "karana_name") =>
        LET n == out.res.karana_number
        IN  /\ n \in 1..60
            /\ Len(KARANA_NAMES) = 11
            /\ n <= 56 => out.res.karana_name = KARANA_NAMES[((n - 1) % 7) + 1]
            /\ n >= 57 => out.res.karana_name = KARANA_NAMES[7 + (n - 57) + 1]

\* the phase of exactly 360 degrees, whose number 61 is wrapped to 1
C13_Witness ==
    /\ pc = "done" /\ out.op = "karana_name"
    /\ req.lunar_phase = Circle
    /\ out.res.karana_number = 1 /\ out.res.karana_name = "Bava"

\* C14: for a lunar-day index k in 1..30 the name calculate_tithi reports is
\* the paksha prefix followed by the k-th entry of the 30-entry TITHI_NAMES
\* table: Purnima for k = 15, Amavasya for k = 30.
C14_TithiNameIsKthEntry ==
    (Returned("tithi") /\ ~prov.down) =>
        \A rise_jd \in {ReferenceJd} :
            LET k == TithiToday(rise_jd)
            IN  (k \in 1..30 /\ ~EqualSamples(relative_motion(rise_jd))) =>
                    /\ Len(TITHI_NAMES) = 30
                    /\ out.res.name = (IF k <= 15 THEN "Shukla Paksha " ELSE "Krishna Paksha ")
                                          \o TITHI_NAMES[k]

(***************************************************************************)
(* SpecCollect: the loop and the sort of get_overlapping_periods applied   *)
(* to a list of calculated periods in any order, with repetitions.  req    *)
(* holds the calculated periods and the window, out the returned list.     *)
(***************************************************************************)
CollectMaxLen == 3

\* the window from 06:00 of day 4 to 06:00 of day 5
CollectWindow == [hindu_day_start |-> 4 * Day + 6 * Hour, hindu_day_end |-> 5 * Day + 6 * Hour]

\* periods that begin before the window, lie inside it, run past its end and
\* lie after it
SampleIntervals ==
    {<<3 * Day + 22 * Hour, 4 * Day + 10 * Hour>>,
     <<4 * Day + 10 * Hour, 5 * Day - 1>>,
     <<5 * Day - 1, 5 * Day + 7 * Hour>>,
     <<5 * Day + 7 * Hour, 5 * Day + 9 * Hour>>}

SamplePeriods == {Period(name, iv[1], iv[2]) : name \in {"Bava", "Balava"}, iv \in SampleIntervals}

InitCollect ==
    /\ pc = "collect"
    /\ \E n \in 1..CollectMaxLen : \E period_data \in [1..n -> SamplePeriods] :
          req = [period_data |-> period_data,
                 hindu_day_start |-> CollectWindow.hindu_day_start,
                 hindu_day_end |-> CollectWindow.hindu_day_end]
    /\ out = None /\ prov = None /\ scan = None /\ lag = None

ApplyCollect ==
    /\ pc = "collect"
    /\ out' = [op |-> "get_overlapping_periods",
               res |-> OverlappingPeriods(req.period_data, req.hindu_day_start,
                                          req.hindu_day_end)]
    /\ pc' = "done"
    /\ UNCHANGED <<prov, req, scan, lag>>

NextCollect == ApplyCollect

SpecCollect == InitCollect /\ [][NextCollect]_vars

\* C15: the list get_overlapping_periods returns is in ascending
\* chronological order of start and holds no two entries with the same name,
\* start and end, whatever the order and the repetitions of the calculated
\* periods.
C15_SortedWithoutDuplicates ==
    (pc = "done" /\ out.op = "get_overlapping_periods") =>
        \A i, j \in 1..Len(out.res) :
            i < j => /\ fromisoformat(out.res[i].start) <= fromisoformat(out.res[j].start)
                     /\ out.res[i] # out.res[j]

\* three calculated periods, the first one later than the second and equal
\* to the third, of which two are returned, the earlier one first
C15_Witness ==
    /\ pc = "done" /\ out.op = "get_overlapping_periods"
    /\ Len(req.period_data) = 3 /\ Len(out.res) = 2
    /\ req.period_data[1] = req.period_data[3]
    /\ fromisoformat(req.period_data[2].start) < fromisoformat(req.period_data[1].start)
    /\ out.res[1] = req.period_data[2] /\ out.res[2] = req.period_data[1]

(***************************************************************************)
(* SpecBisect: binary_search_crossing entered with a bracket of any width, *)
(* one round of its loop at a time.  scan.first is the bracket at entry.   *)
(***************************************************************************)
\* widths of the bracket at entry, in ticks: the scan steps of the two
\* solvers, the tolerance and twice the tolerance, and 2^21 seconds, which
\* 20 halvings do not bring down to the tolerance
BracketWidths == {0, Tolerance, 2 * Tolerance, SunStep, MoonStep, (2^21) * Tick}

\* the minute of the day at which the bracket begins: just before the rise,
\* the set and the moonrise of the profiles, and away from them
EntryMinutes == {0, 29, 7 * 60 + 57, 9 * 60, 12 * 60 + 29, 20 * 60}

InitBisect ==
    /\ pc = "solver"
    /\ \E date \in {1, 4}, body \in {"SUN", "MOON"}, is_rising \in BOOLEAN,
          minutes \in EntryMinutes, width \in BracketWidths :
         /\ req = [date |-> date]
         /\ prov \in IF body = "SUN"
                     THEN {[BaseProvider(date) EXCEPT !.sunReq = s] : s \in SunProfiles}
                     ELSE {[BaseProvider(date) EXCEPT !.moonReq = m] : m \in MoonProfiles}
         /\ LET start_jd == date * DayTicks + minutes * Minute * Tick
                b == [lo |-> start_jd, hi |-> start_jd + width, it |-> 0]
            IN  scan = [body |-> body, is_rising |-> is_rising, jd_start |-> date * DayTicks,
                        i |-> 0, previous_altitude |-> None, previous_jd |-> None,
                        stage |-> "bisect", b |-> b, pair |-> 0, result |-> None,
                        first |-> b]
    /\ out = None
    /\ lag = None

NextBisect == BisectRound \/ BisectReturn

SpecBisect == InitBisect /\ [][NextBisect]_vars

\* the loop is sequential code: a round or the return that can be taken is taken
FairBisect == SpecBisect /\ WF_vars(NextBisect)

BracketWidth(b) == b.hi - b.lo

\* C16: the loop of binary_search_crossing terminates.  It goes round while
\* the bracket is wider than one second and fewer than 20 rounds have run,
\* returns as soon as either fails, never runs more than 20 rounds, and
\* every round halves the width of the bracket.
C16_BisectionTerminates ==
    /\ [](scan.stage = "bisect" => scan.b.it <= 20)
    /\ [][(scan.stage = "bisect" /\ scan'.stage = "bisect") =>
             /\ BracketWidth(scan.b) > Tick /\ scan.b.it < 20
             /\ 2 * BracketWidth(scan'.b) = BracketWidth(scan.b)
             /\ scan'.b.it = scan.b.it + 1]_vars
    /\ [][(scan.stage = "bisect" /\ (BracketWidth(scan.b) <= Tick \/ scan.b.it >= 20)) =>
             scan'.stage = "done"]_vars
    /\ <>(scan.stage = "done")

\* a search that stopped after 20 rounds with a bracket still wider than one
\* second
C16_Witness ==
    /\ pc = "done" /\ scan.stage = "done"
    /\ scan.b.it = 20 /\ BracketWidth(scan.b) > Tick

\* the altitudes at the two ends of a bracket hold the threshold between
\* them: strictly on the upper side (entry), or not (after a round)
Brackets(b, strict) ==
    LET target == ScanTarget(scan.body)
        lower  == calculate_body_altitude(b.lo, scan.body, "req")
        upper  == calculate_body_altitude(b.hi, scan.body, "req")
    IN  IF scan.is_rising
        THEN lower <= target /\ (IF strict THEN target < upper ELSE target <= upper)
        ELSE lower >= target /\ (IF strict THEN target > upper ELSE target >= upper)

\* C17: when binary_search_crossing is entered with a bracket whose ends
\* hold the threshold between their altitudes in the direction of the event,
\* the ends still do so after every round, and the instant returned lies in
\* the bracket of the entry.
C17_CrossingStaysBracketed ==
    (scan.stage \in {"bisect", "done"} /\ Brackets(scan.first, TRUE)) =>
        /\ Brackets(scan.b, FALSE)
        /\ scan.stage = "done" =>
               /\ scan.first.lo <= scan.result.val
               /\ scan.result.val <= scan.first.hi

\* a sunrise refined in eight rounds from a bracket that held it
C17_Witness ==
    /\ pc = "done" /\ scan.stage = "done"
    /\ scan.body = "SUN" /\ scan.is_rising
    /\ Brackets(scan.first, TRUE)
    /\ scan.b.it = 8
    /\ scan.b.lo > scan.first.lo /\ scan.b.hi < scan.first.hi

(***************************************************************************)
(* SpecRuns: the same operation performed twice for the same request with  *)
(* the same provider values, the wall clock moving on between the runs.    *)
(***************************************************************************)
\* providers that answer, a provider that fails, and providers whose
\* longitudes stand still so that the interpolation fails
RunProviders(date) ==
    LET base == BaseProvider(date)
    IN  {base, [base EXCEPT !.moon0 = 1, !.sunRate = 0], [base EXCEPT !.down = TRUE]}
        \cup {[base EXCEPT !.stall = Standstill(date), !.moonRate = mr] : mr \in 5..7}

\* the time that passes between the two runs, in seconds
Delays == {1, Hour, Day}

Operations == {"tithi", "nakshatra", "karana", "yoga", "periods"}

Perform(op) ==
    CASE op = "tithi"     -> calculate_tithi(RequestJd(req.date))
      [] op = "nakshatra" -> calculate_nakshatra(RequestJd(req.date))
      [] op = "karana"    -> calculate_karana(RequestJd(req.date))
      [] op = "yoga"      -> calculate_yoga(RequestJd(req.date))
      [] op = "periods"   -> calculate_all_periods_for_hindu_day(req.date)

InitRuns ==
    /\ pc = "first"
    /\ \E date \in Dates :
         /\ req = [date |-> date]
         /\ prov \in RunProviders(date)
    /\ out = None /\ scan = None /\ lag = None

FirstRun ==
    /\ pc = "first"
    /\ \E op \in Operations : out' = [op |-> op, first |-> Perform(op)]
    /\ pc' = "between"
    /\ UNCHANGED <<prov, req, scan, lag>>

\* datetime.now() is later in the second run
ClockAdvances ==
    /\ pc = "between"
    /\ \E delay \in Delays : prov' = [prov EXCEPT !.now = @ + delay]
    /\ pc' = "second"
    /\ UNCHANGED <<req, out, scan, lag>>

SecondRun ==
    /\ pc = "second"
    /\ out' = [op |-> out.op, first |-> out.first, second |-> Perform(out.op)]
    /\ pc' = "done"
    /\ UNCHANGED <<prov, req, scan, lag>>

NextRuns == FirstRun \/ ClockAdvances \/ SecondRun

SpecRuns == InitRuns /\ [][NextRuns]_vars

\* C18: two runs of a calculator or of the aggregator for the same date and
\* coordinates, with the same values from the position provider, return the
\* same result, also when a step of the calculation fails.
C18_Deterministic ==
    (pc = "done" /\ "second" \in DOMAIN out) => out.first = out.second

(***************************************************************************)
(* The sidereal mode of the ephemeris library under two requests           *)
(***************************************************************************)
\* the requests that are in progress at the same time
Requests == {1, 2}

\* the mode of the library before any swe.set_sid_mode
DefaultSidMode == "SIDM_FAGAN_BRADLEY"

\* the calculations that call swe.set_sid_mode(swe.SIDM_LAHIRI), with the number
\* of swe.get_ayanamsa_ut / sidereal swe.calc_ut evaluations each makes after it
SiderealCalls ==
    [calculate_tithi     |-> 0,
     calculate_nakshatra |-> 5,
     calculate_yoga      |-> 4,
     get_sun_position    |-> 1,
     get_moon_position   |-> 1]

Calculations == DOMAIN SiderealCalls

\* prov is the state of the library: its one sidereal mode, and the request
\* whose swe.set_sid_mode wrote it
InitModes ==
    /\ pc = "modes"
    /\ prov = [sid_mode |-> DefaultSidMode, by |-> 0]
    /\ req = [r \in Requests |-> [calc |-> "none", at |-> "idle"]]
    /\ out = [r \in Requests |-> <<>>]
    /\ scan = None /\ lag = None

\* request r enters one of the calculations
BeginCalculation(r) ==
    /\ pc = "modes"
    /\ req[r].at = "idle"
    /\ \E calc \in Calculations : req' = [req EXCEPT ![r] = [calc |-> calc, at |-> "entered"]]
    /\ UNCHANGED <<pc, prov, out, scan, lag>>

\* swe.set_sid_mode(swe.SIDM_LAHIRI): writes the mode of the library
set_sid_mode(r) ==
    /\ pc = "modes"
    /\ req[r].at = "entered"
    /\ prov' = [sid_mode |-> "SIDM_LAHIRI", by |-> r]
    /\ req' = [req EXCEPT ![r].at = "selected"]
    /\ UNCHANGED <<pc, out, scan, lag>>

\* swe.get_ayanamsa_ut(jd), swe.calc_ut(jd, body, SIDEREAL_FLAG | ...): reads the
\* mode of the library as it is at the time of the call
SiderealEvaluation(r) ==
    /\ pc = "modes"
    /\ req[r].at = "selected"
    /\ Len(out[r]) < SiderealCalls[req[r].calc]
    /\ out' = [out EXCEPT ![r] = Append(@, prov)]
    /\ UNCHANGED <<pc, prov, req, scan, lag>>

\* the calculation of request r returns
ReturnCalculation(r) ==
    /\ pc = "modes"
    /\ req[r].at = "selected"
    /\ Len(out[r]) = SiderealCalls[req[r].calc]
    /\ req' = [req EXCEPT ![r].at = "returned"]
    /\ UNCHANGED <<pc, prov, out, scan, lag>>

NextModes ==
    \E r \in Requests :
        \/ BeginCalculation(r)
        \/ set_sid_mode(r)
        \/ SiderealEvaluation(r)
        \/ ReturnCalculation(r)

SpecModes == InitModes /\ [][NextModes]_vars

\* C19: the sidereal mode is bound per calculation and not shared by the
\* process: under any interleaving of two requests, every ayanamsa or sidereal
\* position evaluation of a calculation observes the mode that this calculation
\* selected, never a mode written by the other request.
C19_ModeBoundPerCalculation ==
    pc = "modes" =>
        \A r \in Requests : \A i \in 1..Len(out[r]) :
            /\ out[r][i].sid_mode = "SIDM_LAHIRI"
            /\ out[r][i].by = r

(***************************************************************************)
(* SpecWindow: the Hindu day window of calculate_all_periods_for_hindu_day *)
(* for the sunrise strings of the date and of the next date                *)
(***************************************************************************)
\* local instants of a sunrise, in seconds of the day
SunriseInstants ==
    {0, 59 * Minute + 59, 6 * Hour, 6 * Hour + 10 * Minute, 11 * Hour + 59 * Minute,
     12 * Hour, 12 * Hour + 30 * Minute, 18 * Hour + 5 * Minute, 23 * Hour + 59 * Minute + 59}

\* what calculate_sunrise_sunset returns as sunrise: a formatted instant,
\* "No Rise", "Calc Error", and the "Time Error" of format_jd_to_time
SunriseStrings ==
    {format_jd_to_time(s * Tick) : s \in SunriseInstants}
        \cup {Text("No Rise"), Text("Calc Error"), Text("Time Error")}

InitWindow ==
    /\ pc = "window"
    /\ \E date \in Dates, sunrise_str \in SunriseStrings, sunrise_next_str \in SunriseStrings :
         req = [date |-> date, sunrise_str |-> sunrise_str,
                sunrise_next_str |-> sunrise_next_str]
    /\ out = None /\ prov = None /\ scan = None /\ lag = None

\* hindu_day_start, hindu_day_end and their isoformat in the response
ApplyWindow ==
    /\ pc = "window"
    /\ out' = [op  |-> "window",
               res |-> [hindu_day_start |->
                            isoformat(parse_time_to_datetime(req.date, req.sunrise_str)),
                        hindu_day_end   |->
                            isoformat(parse_time_to_datetime(req.date + 1,
                                                             req.sunrise_next_str))]]
    /\ pc' = "done"
    /\ UNCHANGED <<prov, req, scan, lag>>

NextWindow == ApplyWindow

SpecWindow == InitWindow /\ [][NextWindow]_vars

\* C20: the Hindu day window of calculate_all_periods_for_hindu_day has
\* hindu_day_end strictly later than hindu_day_start, for every pair of sunrise
\* strings of the date and the next date, "No Rise" and "Calc Error" included.
C20_WindowEndAfterStart ==
    (pc = "done" /\ out.op = "window") =>
        fromisoformat(out.res.hindu_day_end) > fromisoformat(out.res.hindu_day_start)

\* no sunrise on the date, replaced by 6:10, and a sunrise at 12:00 AM of the
\* next date: the window lasts 17 h 50 min
C20_Witness ==
    /\ pc = "done" /\ out.op = "window"
    /\ req.sunrise_str = Text("No Rise")
    /\ req.sunrise_next_str = ClockString(12, 0, "AM")
    /\ fromisoformat(out.res.hindu_day_end) - fromisoformat(out.res.hindu_day_start)
           = 17 * Hour + 50 * Minute

(***************************************************************************)
(* SpecApi: POST /api/panchangam.  The body is first parsed into a         *)
(* PanchangamRequest; a body the request model rejects is answered by the  *)
(* framework and never reaches calculate_panchangam.                       *)
(***************************************************************************)
CITY_TIMEZONES == {"Bengaluru", "Coventry", "New York", "Lima", "Harare", "Canberra"}

HTTP_400_BAD_REQUEST == 400

HTTP_422_UNPROCESSABLE_ENTITY == 422

HTTP_500_INTERNAL_SERVER_ERROR == 500

HTTP_200_OK == 200

\* a date string "YYYY-MM-DD" by its month and day and by the number of days
\* from today to it
DateString(month, day, days) == [str |-> TRUE, month |-> month, day |-> day, days |-> days]

\* the JSON values sent as date: strings of the form YYYY-MM-DD (a month 13
\* and a 30th of February among them), the string "invalid-date", and null
DateInputs ==
    {DateString(10, 5, days) : days \in {-3651, -3650, 0, 365, 366}}
        \cup {DateString(13, 5, 0), DateString(2, 30, 0)}
        \cup {[str |-> TRUE, text |-> "invalid-date"], [str |-> FALSE]}

\* latitude and longitude in whole degrees
LatitudeInputs == {-91, -90, 12, 90, 95}

LongitudeInputs == {-181, -180, 77, 180, 181}

CityInputs == {"Bengaluru", "Coventry", "InvalidCity"}

\* days of the months of a year that is not a leap year
DaysInMonth(month) ==
    IF month = 2 THEN 28 ELSE IF month \in {4, 6, 9, 11} THEN 30 ELSE 31

\* datetime.fromisoformat(request.date): raises ValueError, with the message
\* "Invalid isoformat string" when the string has not the form of a date
datetime_fromisoformat(date) ==
    IF "text" \in DOMAIN date THEN Raise("Invalid isoformat string")
    ELSE IF date.month \notin 1..12 THEN Raise("month must be in 1..12")
    ELSE IF date.day \notin 1..DaysInMonth(date.month) THEN Raise("day is out of range for month")
    ELSE Some(date.days)

\* PanchangamRequest: date: str, latitude: float with ge=-90, le=90,
\* longitude: float with ge=-180, le=180, city: str
PanchangamRequest(body) ==
    /\ body.date.str
    /\ body.latitude >= -90 /\ body.latitude <= 90
    /\ body.longitude >= -180 /\ body.longitude <= 180

\* a validation that leaves out the check of the city
validate_requestWithoutCity(request) ==
    LET date_obj == datetime_fromisoformat(request.date)
    IN  IF Raised(date_obj)
            THEN IF date_obj.exc = "Invalid isoformat string"
                     THEN Raise("Date must be in ISO format (YYYY-MM-DD)")
                 ELSE date_obj
        ELSE IF date_obj.val > 365
            THEN Raise("Date cannot be more than 1 year in the future")
        ELSE IF date_obj.val < -(365 * 10)
            THEN Raise("Date cannot be more than 10 years in the past")
        ELSE IF ~(-90 <= request.latitude /\ request.latitude <= 90)
            THEN Raise("Latitude must be between -90 and 90 degrees")
        ELSE IF ~(-180 <= request.longitude /\ request.longitude <= 180)
            THEN Raise("Longitude must be between -180 and 180 degrees")
        ELSE None

\* validate_request(request): the ValueError it raises, or None
validate_request(request) ==
    LET date_obj == datetime_fromisoformat(request.date)
    IN  IF Raised(date_obj)
            THEN IF date_obj.exc = "Invalid isoformat string"
                     THEN Raise("Date must be in ISO format (YYYY-MM-DD)")
                 ELSE date_obj
        ELSE IF date_obj.val > 365
            THEN Raise("Date cannot be more than 1 year in the future")
        ELSE IF date_obj.val < -(365 * 10)
            THEN Raise("Date cannot be more than 10 years in the past")
        ELSE IF ~(-90 <= request.latitude /\ request.latitude <= 90)
            THEN Raise("Latitude must be between -90 and 90 degrees")
        ELSE IF ~(-180 <= request.longitude /\ request.longitude <= 180)
            THEN Raise("Longitude must be between -180 and 180 degrees")
        ELSE IF request.city \notin CITY_TIMEZONES
            THEN Raise("Unsupported city")
        ELSE None

\* the calculations of calculate_panchangam, in the order of the calls
PanchangamCalculations ==
    <<"calculate_sunrise_sunset", "calculate_moonrise_moonset", "calculate_tithi",
      "calculate_nakshatra", "calculate_karana", "calculate_yoga", "calculate_rahu_kalam",
      "calculate_gulika_kalam", "calculate_yamaganda_kalam", "calculate_varjyam",
      "calculate_abhijit_muhurat", "calculate_brahma_muhurat", "calculate_pradosha_time">>

\* calculate_panchangam(request): ValueError -> 400; any other exception of a
\* calculation -> 500, which failed says
calculate_panchangam(request, failed) ==
    LET invalid == validate_request(request)
    IN  IF Raised(invalid)
            THEN [status |-> HTTP_400_BAD_REQUEST, detail |-> invalid.exc, ran |-> <<>>]
        ELSE IF failed \in 1..Len(PanchangamCalculations)
            THEN [status |-> HTTP_500_INTERNAL_SERVER_ERROR, detail |-> "Calculation error",
                  ran |-> SubSeq(PanchangamCalculations, 1, failed)]
        ELSE [status |-> HTTP_200_OK, detail |-> "", ran |-> PanchangamCalculations]

InitApi ==
    /\ pc = "posted"
    /\ \E date \in DateInputs, latitude \in LatitudeInputs,
          longitude \in LongitudeInputs, city \in CityInputs :
         req = [date |-> date, latitude |-> latitude, longitude |-> longitude, city |-> city]
    /\ out = None /\ prov = None /\ scan = None /\ lag = None

\* the body does not satisfy the request model: the framework answers
RejectBody ==
    /\ pc = "posted"
    /\ ~PanchangamRequest(req)
    /\ out' = [status |-> HTTP_422_UNPROCESSABLE_ENTITY, detail |-> "validation error",
               ran |-> <<>>]
    /\ pc' = "answered"
    /\ UNCHANGED <<prov, req, scan, lag>>

\* the body satisfies the request model: calculate_panchangam answers
HandlePanchangam ==
    /\ pc = "posted"
    /\ PanchangamRequest(req)
    /\ \E failed \in 0..Len(PanchangamCalculations) : out' = calculate_panchangam(req, failed)
    /\ pc' = "answered"
    /\ UNCHANGED <<prov, req, scan, lag>>

NextApi == RejectBody \/ HandlePanchangam

SpecApi == InitApi /\ [][NextApi]_vars

\* C21: a POST /api/panchangam request whose latitude is outside [-90, 90], or
\* whose longitude is outside [-180, 180], is answered with status 400.
C21_CoordinatesOutOfRange400 ==
    (pc = "answered" /\ (req.latitude < -90 \/ req.latitude > 90
                         \/ req.longitude < -180 \/ req.longitude > 180))
        => out.status = 400

\* the date of the body is not an ISO date string
NotIsoDate(date) == ~date.str \/ Raised(datetime_fromisoformat(date))

LocalSunriseUtc(date) ==
    LET midnight == RequestJd(date)
    IN  midnight + ((prov.sunCity.rise - midnight) % prov.sunCity.period)

\* C23: the reference instant rise_jd at which calculate_tithi,
\* calculate_nakshatra and calculate_yoga sample the angle is the UTC instant of
\* local sunrise on the requested local date (to the minute the sunrise string
\* keeps), when jd is the Julian day of local midnight converted to UTC.
C23_ReferenceIsLocalSunrise ==
    (/\ pc = "done" /\ out.op \in {"tithi", "nakshatra", "yoga"}
     /\ ~prov.down /\ prov.sunCity.kind = "cycle") =>
        LocalSunriseUtc(req.date) - ReferenceJd \in 0..(Minute - 1)

(***************************************************************************)
(* SpecScan: find_sun_event and find_moon_event as whole calls, for bodies *)
(* whose crossing lies anywhere in the search window, its ends included    *)
(***************************************************************************)
\* seconds of the day (UTC) at which the body passes the threshold upwards: at
\* the start of the window, between two samples, and in the last step interval
ScanRiseInstants ==
    {0, 1, 30 * Minute, 7 * Hour + 4 * Minute + 30, 12 * Hour, 23 * Hour + 50 * Minute,
     23 * Hour + 57 * Minute, 23 * Hour + 58 * Minute + 30, 23 * Hour + 59 * Minute + 59}

ScanSunProfiles == {[CitySun EXCEPT !.rise = r] : r \in ScanRiseInstants}

ScanMoonProfiles ==
    {[kind |-> "cycle", base |-> MoonTarget, rise |-> r, len |-> 12 * Hour + 25 * Minute,
      period |-> Day + 50 * Minute] : r \in ScanRiseInstants}

InitScan ==
    /\ pc = "scan"
    /\ \E date \in Dates, body \in {"SUN", "MOON"}, is_rising \in BOOLEAN :
         /\ req = [date |-> date, body |-> body, is_rising |-> is_rising]
         /\ prov \in IF body = "SUN"
                     THEN {[BaseProvider(date) EXCEPT !.sunReq = s] : s \in ScanSunProfiles}
                     ELSE {[BaseProvider(date) EXCEPT !.moonReq = m] : m \in ScanMoonProfiles}
    /\ out = None /\ scan = None /\ lag = None

\* find_sun_event(jd_start, latitude, longitude, is_sunrise)
ApplyFindSunEvent ==
    /\ pc = "scan" /\ req.body = "SUN"
    /\ out' = [op |-> "find_sun_event",
               res |-> find_sun_event(req.date * DayTicks, "req", req.is_rising)]
    /\ pc' = "done"
    /\ UNCHANGED <<prov, req, scan, lag>>

\* find_moon_event(jd_start, latitude, longitude, is_moonrise)
ApplyFindMoonEvent ==
    /\ pc = "scan" /\ req.body = "MOON"
    /\ out' = [op |-> "find_moon_event",
               res |-> find_moon_event(req.date * DayTicks, "req", req.is_rising)]
    /\ pc' = "done"
    /\ UNCHANGED <<prov, req, scan, lag>>

NextScan == ApplyFindSunEvent \/ ApplyFindMoonEvent

SpecScan == InitScan /\ [][NextScan]_vars

\* the first instant at or after jd_start, in seconds, at which the altitude
\* of the body passes the threshold in the requested direction
FirstCrossing ==
    LET p        == BodyProfile(req.body, "req")
        jd_start == req.date * Day
        at       == IF req.is_rising THEN p.rise ELSE p.rise + p.len
    IN  jd_start + ((at - jd_start) % p.period)

\* search_duration in seconds: 1 day for the Sun, 2 days for the Moon
SearchDuration == IF req.body = "SUN" THEN Day ELSE 2 * Day

\* C24: the coarse scan covers the whole search duration: if the altitude
\* crosses the threshold in the requested direction at an instant of
\* [jd_start, jd_start + search_duration), find_sun_event and find_moon_event
\* return an instant and not None, also when the crossing lies in the last step
\* interval before the end of the window.
C24_ScanCoversWindow ==
    (pc = "done" /\ out.op \in {"find_sun_event", "find_moon_event"}
     /\ FirstCrossing < req.date * Day + SearchDuration)
        => ~IsNone(out.res)

(***************************************************************************)
(* The element index at the reference instant                              *)
(***************************************************************************)
\* C25: for every angle in [0, 360), exactly 0 included, the 1-based element
\* index computed at the reference instant lies in 1..30 in calculate_tithi
\* and in 1..27 in calculate_nakshatra and calculate_yoga.
C25_ElementIndexInRange ==
    (pc = "done" /\ out.op \in {"tithi", "nakshatra", "yoga"} /\ ~prov.down) =>
        ElementIndex(out.op) \in 1..(IF out.op = "tithi" THEN 30 ELSE 27)

(***************************************************************************)
(* SpecMoon: calculate_moonrise_moonset for dates in and at the end of a   *)
(* month, for the offsets of three cities                                  *)
(***************************************************************************)
\* day numbers: the 5th, the 30th and the 31st of a month of 31 days, and the
\* 1st of the next month
MoonDates == {4, 29, 30, 31}

\* get_timezone_offset: 5.5 (bengaluru), 1.0 (coventry), -4.0 (new york)
TimezoneOffsets == {TzBengaluru, Hour, -4 * Hour}

InitMoon ==
    /\ pc = "moon"
    /\ \E date \in MoonDates, tz_offset \in TimezoneOffsets :
         /\ req = [date |-> date, tz_offset |-> tz_offset]
         /\ prov \in {[BaseProvider(date) EXCEPT !.moonReq = m] : m \in ScanMoonProfiles}
    /\ out = None /\ scan = None /\ lag = None

ApplyMoonriseMoonset ==
    /\ pc = "moon"
    /\ out' = [op  |-> "calculate_moonrise_moonset",
               res |-> calculate_moonrise_moonset(req.date, "req", req.tz_offset)]
    /\ pc' = "done"
    /\ UNCHANGED <<prov, req, scan, lag>>

NextMoon == ApplyMoonriseMoonset

SpecMoon == InitMoon /\ [][NextMoon]_vars

\* the local calendar date, as a day number, of the moonset found for the
\* requested date
MoonsetLocalDate ==
    (find_moon_event(req.date * DayTicks, "req", FALSE).val + req.tz_offset * Tick) \div DayTicks

\* C26: calculate_moonrise_moonset appends the " (+1)" marker to the moonset
\* string exactly when the local calendar date of the found moonset is later
\* than the requested date, for every requested date, the last day of a month
\* included.
C26_PlusOneMarksLaterDate ==
    (pc = "done" /\ out.op = "calculate_moonrise_moonset" /\ IsClock(out.res.moonset)) =>
        (out.res.moonset.plus <=> MoonsetLocalDate > req.date)

(***************************************************************************)
(* The sunset, moonrise and moonset instants of the aggregator             *)
(***************************************************************************)
\* the hour, on the 24 hour clock, that a clock string "H:MM AM/PM" shows
HourShown(s) == (s.h % 12) + (IF s.ap = "PM" THEN 12 ELSE 0)

\* the instant iso carries the hour and the minute of the clock string s
CarriesClock(iso, s) == IsClock(s) => (iso.hh = HourShown(s) /\ iso.mm = s.m)

\* C27: the sunset, moonrise and moonset instants in the result of
\* calculate_all_periods_for_hindu_day carry the hour and minute of the strings
\* calculate_sunrise_sunset and calculate_moonrise_moonset return for a found
\* event, a moonset marked " (+1)" included; a found event is never replaced
\* by the 06:10 default.
C27_InstantsCarryClockStrings ==
    Returned("periods") =>
        /\ CarriesClock(out.res.sunset,
                        calculate_sunrise_sunset(req.date, "req", TzBengaluru).sunset)
        /\ CarriesClock(out.res.moonrise,
                        calculate_moonrise_moonset(req.date, "req", TzBengaluru).moonrise)
        /\ CarriesClock(out.res.moonset,
                        calculate_moonrise_moonset(req.date, "req", TzBengaluru).moonset)

(***************************************************************************)
(* SpecClock: format_jd_to_time followed by the parser of the clock string *)
(***************************************************************************)
\* seconds past the minute of the formatted instant
ClockSeconds == {0, 59}

InitClock ==
    /\ pc = "clock"
    /\ \E h \in 0..23, m \in 0..59, sec \in ClockSeconds :
         req = [date |-> 4, h |-> h, m |-> m, sec |-> sec]
    /\ out = None /\ prov = None /\ scan = None /\ lag = None

\* the string of the local instant h:m:sec of the date, then hours and minutes
\* as calculate_sunrise_for_panchang and get_sunrise_jd parse them, and the
\* datetime of parse_time_to_datetime
ApplyClockRoundTrip ==
    /\ pc = "clock"
    /\ \E time_str \in {format_jd_to_time((req.date * Day + req.h * Hour + req.m * Minute
                                            + req.sec) * Tick)} :
         out' = [op |-> "clock", time_str |-> time_str, res |-> ParseClock(time_str),
                 datetime |-> parse_time_to_datetime(req.date, time_str)]
    /\ pc' = "done"
    /\ UNCHANGED <<prov, req, scan, lag>>

NextClock == ApplyClockRoundTrip

SpecClock == InitClock /\ [][NextClock]_vars

\* C28: for every hour h in 0..23 and minute m in 0..59, parsing the string
\* "H:MM AM/PM" that format_jd_to_time produces, with the parser used in
\* calculate_sunrise_for_panchang, get_sunrise_jd and parse_time_to_datetime,
\* yields (h, m) again.
C28_ClockRoundTrip ==
    (pc = "done" /\ out.op = "clock") =>
        /\ out.res = [hours |-> req.h, minutes |-> req.m]
        /\ out.datetime = req.date * Day + req.h * Hour + req.m * Minute

\* five past midnight is written "12:05 AM" and parsed to hour 0
C28_Witness ==
    /\ pc = "done" /\ out.op = "clock"
    /\ req.h = 0 /\ req.m = 5
    /\ out.time_str = ClockString(12, 5, "AM")
    /\ out.res = [hours |-> 0, minutes |-> 5]

(***************************************************************************)
(* muhurat.py: calculate_rahu_kalam.  A time of day is a number of minutes;*)
(* format_time_24hour writes its hour and minute.                          *)
(***************************************************************************)
\* datetime.strptime(s.replace(' AM', '').replace(' PM', ''), '%I:%M'): the
\* hour 12 is read as 0; a string that is no clock string raises ValueError
strptime(s) ==
    IF ~IsClock(s) \/ s.plus THEN ValueError
    ELSE [hour |-> s.h % 12, minute |-> s.m]

\* dt.strftime("%H:%M") of a time of day plus a number of minutes
format_time_24hour(minutes) ==
    [hh |-> (minutes % (24 * 60)) \div 60, mm |-> minutes % 60]

\* rahu_periods, by date.weekday(): 0 = Monday, 6 = Sunday
rahu_periods == [w \in 0..6 |-> <<1, 6, 4, 5, 3, 2, 4>>[w + 1]]

\* the result of the except branch
RahuDefault == [start |-> [hh |-> 16, mm |-> 30], end |-> [hh |-> 18, mm |-> 0]]

calculate_rahu_kalam(weekday, sunrise_str, sunset_str) ==
    LET parsed_rise == strptime(sunrise_str)
        parsed_set  == strptime(sunset_str)
    IN  IF Raised(parsed_rise) \/ Raised(parsed_set) THEN RahuDefault
        ELSE
        LET set_pm    == IF sunset_str.ap = "PM" /\ parsed_set.hour # 12
                         THEN parsed_set.hour + 12 ELSE parsed_set.hour
            rise_hour == IF sunrise_str.ap = "AM" /\ parsed_rise.hour = 12
                         THEN 0 ELSE parsed_rise.hour
            set_hour  == IF set_pm < rise_hour THEN set_pm + 24 ELSE set_pm
        IN  \* sunset_time.replace(hour=...) raises ValueError for an hour above 23
            IF set_hour > 23 THEN RahuDefault
            ELSE
            LET day_duration    == (set_hour - rise_hour) * 60
                                       + (parsed_set.minute - parsed_rise.minute)
                period_duration == day_duration \div 8
                rahu_period     == rahu_periods[weekday]
                start_minutes   == (rahu_period - 1) * period_duration
                end_minutes     == rahu_period * period_duration
                sunrise_time    == rise_hour * 60 + parsed_rise.minute
            IN  [start |-> format_time_24hour(sunrise_time + start_minutes),
                 end   |-> format_time_24hour(sunrise_time + end_minutes)]

\* sunrise and sunset strings of calculate_sunrise_sunset
RahuSunriseStrings ==
    {ClockString(6, 0, "AM"), ClockString(5, 47, "AM"), ClockString(12, 10, "AM"),
     ClockString(7, 30, "AM"), Text("No Rise")}

RahuSunsetStrings ==
    {ClockString(6, 0, "PM"), ClockString(5, 59, "PM"), ClockString(12, 30, "PM"),
     ClockString(11, 10, "PM"), Text("No Set")}

InitRahu ==
    /\ pc = "rahu"
    /\ \E weekday \in 0..6, sunrise_str \in RahuSunriseStrings, sunset_str \in RahuSunsetStrings :
         req = [weekday |-> weekday, sunrise_str |-> sunrise_str, sunset_str |-> sunset_str]
    /\ out = None /\ prov = None /\ scan = None /\ lag = None

ApplyRahuKalam ==
    /\ pc = "rahu"
    /\ out' = [op  |-> "calculate_rahu_kalam",
               res |-> calculate_rahu_kalam(req.weekday, req.sunrise_str, req.sunset_str)]
    /\ pc' = "done"
    /\ UNCHANGED <<prov, req, scan, lag>>

NextRahu == ApplyRahuKalam

SpecRahu == InitRahu /\ [][NextRahu]_vars

\* the segment of each weekday, the first segment numbered 1: Monday 2nd,
\* Tuesday 7th, Wednesday 5th, Thursday 6th, Friday 4th, Saturday 3rd, Sunday 5th
RahuSegment == [w \in 0..6 |-> <<2, 7, 5, 6, 4, 3, 5>>[w + 1]]

\* the minutes of the day a clock string shows
MinutesShown(s) == HourShown(s) * 60 + s.m

\* C29: Rahu Kalam is the N-th of the eight equal segments of the span from
\* sunrise to sunset, counted from sunrise with the first segment numbered 1,
\* N by weekday as the table states: the window runs from
\* sunrise + (N-1)*floor(day_minutes/8) to sunrise + N*floor(day_minutes/8).
C29_RahuKalamIsNthSegment ==
    (/\ pc = "done" /\ out.op = "calculate_rahu_kalam"
     /\ IsClock(req.sunrise_str) /\ IsClock(req.sunset_str)) =>
        LET sunrise == MinutesShown(req.sunrise_str)
            eighth  == (MinutesShown(req.sunset_str) - sunrise) \div 8
            N       == RahuSegment[req.weekday]
        IN  /\ out.res.start = format_time_24hour(sunrise + (N - 1) * eighth)
            /\ out.res.end = format_time_24hour(sunrise + N * eighth)

(***************************************************************************)
(* SpecKaranaPeriod: calculate_karana for every lunar phase in [0, 360) at *)
(* query instants on and off the grid of the provider                      *)
(***************************************************************************)
\* query instants, in seconds: local midnight of day 4 in UTC, and an instant
\* of that day that is no whole half hour
KaranaInstants == {RequestJd(4), 4 * Day + 13 * Hour + 7 * Minute + 17}

InitKaranaPeriod ==
    /\ pc = "karana_period"
    /\ \E jd \in KaranaInstants, phase \in 0..(Circle - 1), sun_long \in {0, 200 * Deg + 10} :
         /\ req = [jd |-> jd, lunar_phase |-> phase]
         /\ prov = [BaseProvider(4) EXCEPT !.epoch = jd \div Grid, !.sun0 = sun_long,
                                           !.moon0 = (sun_long + phase) % Circle]
    /\ out = None /\ scan = None /\ lag = None

ApplyKaranaPeriod ==
    /\ pc = "karana_period"
    /\ out' = [op |-> "calculate_karana", res |-> calculate_karana(req.jd)]
    /\ pc' = "done"
    /\ UNCHANGED <<prov, req, scan, lag>>

NextKaranaPeriod == ApplyKaranaPeriod

SpecKaranaPeriod == InitKaranaPeriod /\ [][NextKaranaPeriod]_vars

====
